---------------------------- MODULE Spec2Model ----------------------------
(***************************************************************************)
(* Verification model of the nand2tetris-rs toolchain: the Hack assembler  *)
(* (assembler.rs), the VM translator (vm_translator.rs) and the Jack code  *)
(* generator (vm_writer.rs, symbol_table.rs).                              *)
(*                                                                         *)
(* Text is modelled as sequences of one-character strings, so that the     *)
(* formatting and parsing done by the code (substr, find, parse::<u32>,    *)
(* {:016b}, split(' ')) are computed and not assumed.                      *)
(***************************************************************************)
EXTENDS Integers, Sequences, FiniteSets, TLC

VARIABLES
    \* ---- Assembler (assembler.rs) ----
    asm_src,        \* the instructions the input file was written from
    codes,          \* Assembler::codes
    symbol_table,   \* Assembler::symbol_table
    output,         \* Assembler::output, one entry per written line
    alloc_address,  \* Assembler::alloc_address
    asm_pc,         \* position of Assembler::run: "pass1","pass2","save","done","panic"
    cursor,         \* index of the next line of codes in Assembler::parse
    \* ---- VM translator (vm_translator.rs) and the Hack platform ----
    vm_in,          \* the scenario under translation
    asm_out,        \* VmTranslator::output, one entry per written line
    rom,            \* the instructions of asm_out as loaded in the Hack ROM
    cpu,            \* Hack registers: [pc, A, D]
    ram,            \* Hack RAM, addresses never written read 0
    snap,           \* history: SP, LCL, ARG, THIS, THAT as each call began
    \* ---- Jack code generator (vm_writer.rs) ----
    ast,            \* VmWriter::ast
    context,        \* VmWriter::context
    vm_output,      \* VmCommandWriter::output, one entry per written line
    gen_pc,         \* position of VmWriter::run
    gen_log,        \* history: the node written last, the context and the length
                    \* of the output before it
    \* ---- Jack tokenizer (jack_tokenizer.rs) ----
    jack_src,       \* the text of the .jack file
    tok_codes,      \* JackTokenizer::codes
    tokens,         \* JackTokenizer::tokens
    tok_pc,         \* position: "new", "tokenize", "save", "done"
    \* ---- Jack parser (jack_parser.rs) ----
    par_tokens,     \* TokenStream::tokens
    par_i,          \* TokenStream::i
    par_class,      \* JackParser::class
    par_pc,         \* position of JackParser::run: "run", "done", "panic"
    par_log         \* history: the tokens step let pass in place of another, and
                    \* the terms parsed from a string constant

vars == <<asm_src, codes, symbol_table, output, alloc_address, asm_pc, cursor,
          vm_in, asm_out, rom, cpu, ram, snap, ast, context, vm_output, gen_pc,
          gen_log, jack_src, tok_codes, tokens, tok_pc,
          par_tokens, par_i, par_class, par_pc, par_log>>

asm_vars == <<asm_src, codes, symbol_table, output, alloc_address, asm_pc, cursor>>
vmt_vars == <<vm_in, asm_out, rom, cpu, ram, snap>>
gen_vars == <<ast, context, vm_output, gen_pc, gen_log>>
tok_vars == <<jack_src, tok_codes, tokens, tok_pc>>
par_vars == <<par_tokens, par_i, par_class, par_pc, par_log>>

-----------------------------------------------------------------------------
(* Bounds of the model *)

MaxAsmLen == 2      \* lines in an assembly input file

-----------------------------------------------------------------------------
(* Text helpers *)

Min(a, b) == IF a < b THEN a ELSE b
Max(a, b) == IF a > b THEN a ELSE b

WORD == 2 ^ 16       \* the Hack word

DIGITS == <<"0", "1", "2", "3", "4", "5", "6", "7", "8", "9">>

IsDigit(c) == \E i \in 1..10 : DIGITS[i] = c

DigitVal(c) == (CHOOSE i \in 1..10 : DIGITS[i] = c) - 1

\* format!("{}", n) for an unsigned integer
RECURSIVE ToDec(_)
ToDec(n) == IF n < 10 THEN <<DIGITS[n + 1]>>
            ELSE ToDec(n \div 10) \o <<DIGITS[(n % 10) + 1]>>

RECURSIVE DecVal(_)
DecVal(s) == IF s = <<>> THEN 0
             ELSE DecVal(SubSeq(s, 1, Len(s) - 1)) * 10 + DigitVal(s[Len(s)])

\* str::parse::<u32>: an optional '+', then one or more digits, value within
\* u32; the texts of the model have at most nine digits, all of them within u32
DecBody(s) == IF s # <<>> /\ s[1] = "+" THEN Tail(s) ELSE s

ParseOk(s) == /\ DecBody(s) # <<>>
              /\ \A i \in 1..Len(DecBody(s)) : IsDigit(DecBody(s)[i])
              /\ Len(DecBody(s)) <= 9

ParseU32(s) == DecVal(DecBody(s))

\* utils::substr: s.chars().skip(start).take(len)
substr(s, start, len) == SubSeq(s, start + 1, Min(Len(s), start + len))

\* str::find(char): 0-based index of the first occurrence, -1 for None
find(s, c) == IF \E i \in 1..Len(s) : s[i] = c
              THEN (CHOOSE i \in 1..Len(s) : s[i] = c /\ \A j \in 1..(i - 1) : s[j] # c) - 1
              ELSE -1

starts_with(s, c) == s # <<>> /\ s[1] = c

\* str::trim for the blanks of the model
RECURSIVE TrimLeft(_)
TrimLeft(s) == IF s # <<>> /\ s[1] = " " THEN TrimLeft(Tail(s)) ELSE s

RECURSIVE TrimRight(_)
TrimRight(s) == IF s # <<>> /\ s[Len(s)] = " " THEN TrimRight(SubSeq(s, 1, Len(s) - 1)) ELSE s

trim(s) == TrimRight(TrimLeft(s))

\* format!("{:b}", n)
RECURSIVE ToBin(_)
ToBin(n) == IF n < 2 THEN <<DIGITS[n + 1]>>
            ELSE ToBin(n \div 2) \o <<DIGITS[(n % 2) + 1]>>

RECURSIVE Zeros(_)
Zeros(k) == IF k <= 0 THEN <<>> ELSE <<"0">> \o Zeros(k - 1)

\* format!("{:016b}", n): at least 16 binary digits, zero padded on the left
Fmt016b(n) == Zeros(16 - Len(ToBin(n))) \o ToBin(n)

-----------------------------------------------------------------------------
(* Assembler (assembler.rs) *)

None == <<>>    \* Option::None of a table lookup

\* HashMap::get on a table written as a sequence of <<key, value>>
TableHas(table, key) == \E i \in 1..Len(table) : table[i][1] = key

TableGet(table, key) == IF TableHas(table, key)
                        THEN table[CHOOSE i \in 1..Len(table) : table[i][1] = key][2]
                        ELSE None

COMP_TABLE ==
    << <<<<"0">>, <<"0", "1", "0", "1", "0", "1", "0">>>>,
       <<<<"1">>, <<"0", "1", "1", "1", "1", "1", "1">>>>,
       <<<<"-", "1">>, <<"0", "1", "1", "1", "0", "1", "0">>>>,
       <<<<"D">>, <<"0", "0", "0", "1", "1", "0", "0">>>>,
       <<<<"A">>, <<"0", "1", "1", "0", "0", "0", "0">>>>,
       <<<<"!", "D">>, <<"0", "0", "0", "1", "1", "0", "1">>>>,
       <<<<"!", "A">>, <<"0", "1", "1", "0", "0", "0", "1">>>>,
       <<<<"-", "D">>, <<"0", "0", "0", "1", "1", "1", "1">>>>,
       <<<<"-", "A">>, <<"0", "1", "1", "0", "0", "1", "1">>>>,
       <<<<"D", "+", "1">>, <<"0", "0", "1", "1", "1", "1", "1">>>>,
       <<<<"A", "+", "1">>, <<"0", "1", "1", "0", "1", "1", "1">>>>,
       <<<<"D", "-", "1">>, <<"0", "0", "0", "1", "1", "1", "0">>>>,
       <<<<"A", "-", "1">>, <<"0", "1", "1", "0", "0", "1", "0">>>>,
       <<<<"D", "+", "A">>, <<"0", "0", "0", "0", "0", "1", "0">>>>,
       <<<<"D", "-", "A">>, <<"0", "0", "1", "0", "0", "1", "1">>>>,
       <<<<"A", "-", "D">>, <<"0", "0", "0", "0", "1", "1", "1">>>>,
       <<<<"D", "&", "A">>, <<"0", "0", "0", "0", "0", "0", "0">>>>,
       <<<<"D", "|", "A">>, <<"0", "0", "1", "0", "1", "0", "1">>>>,
       <<<<"M">>, <<"1", "1", "1", "0", "0", "0", "0">>>>,
       <<<<"!", "M">>, <<"1", "1", "1", "0", "0", "0", "1">>>>,
       <<<<"-", "M">>, <<"1", "1", "1", "0", "0", "1", "1">>>>,
       <<<<"M", "+", "1">>, <<"1", "1", "1", "0", "1", "1", "1">>>>,
       <<<<"M", "-", "1">>, <<"1", "1", "1", "0", "0", "1", "0">>>>,
       <<<<"D", "+", "M">>, <<"1", "0", "0", "0", "0", "1", "0">>>>,
       <<<<"D", "-", "M">>, <<"1", "0", "1", "0", "0", "1", "1">>>>,
       <<<<"M", "-", "D">>, <<"1", "0", "0", "0", "1", "1", "1">>>>,
       <<<<"D", "&", "M">>, <<"1", "0", "0", "0", "0", "0", "0">>>>,
       <<<<"D", "|", "M">>, <<"1", "0", "1", "0", "1", "0", "1">>>> >>

DEST_TABLE ==
    << <<<<"n", "u", "l", "l">>, <<"0", "0", "0">>>>,
       <<<<"M">>, <<"0", "0", "1">>>>,
       <<<<"D">>, <<"0", "1", "0">>>>,
       <<<<"M", "D">>, <<"0", "1", "1">>>>,
       <<<<"A">>, <<"1", "0", "0">>>>,
       <<<<"A", "M">>, <<"1", "0", "1">>>>,
       <<<<"A", "D">>, <<"1", "1", "0">>>>,
       <<<<"A", "M", "D">>, <<"1", "1", "1">>>> >>

JMP_TABLE ==
    << <<<<"n", "u", "l", "l">>, <<"0", "0", "0">>>>,
       <<<<"J", "G", "T">>, <<"0", "0", "1">>>>,
       <<<<"J", "E", "Q">>, <<"0", "1", "0">>>>,
       <<<<"J", "G", "E">>, <<"0", "1", "1">>>>,
       <<<<"J", "L", "T">>, <<"1", "0", "0">>>>,
       <<<<"J", "N", "E">>, <<"1", "0", "1">>>>,
       <<<<"J", "L", "E">>, <<"1", "1", "0">>>>,
       <<<<"J", "M", "P">>, <<"1", "1", "1">>>> >>

PREDEFINED_SYMBOL_TABLE ==
    << <<<<"S", "P">>, 0>>,
       <<<<"L", "C", "L">>, 1>>,
       <<<<"A", "R", "G">>, 2>>,
       <<<<"T", "H", "I", "S">>, 3>>,
       <<<<"T", "H", "A", "T">>, 4>>,
       <<<<"R", "0">>, 0>>,
       <<<<"R", "1">>, 1>>,
       <<<<"R", "2">>, 2>>,
       <<<<"R", "3">>, 3>>,
       <<<<"R", "4">>, 4>>,
       <<<<"R", "5">>, 5>>,
       <<<<"R", "6">>, 6>>,
       <<<<"R", "7">>, 7>>,
       <<<<"R", "8">>, 8>>,
       <<<<"R", "9">>, 9>>,
       <<<<"R", "1", "0">>, 10>>,
       <<<<"R", "1", "1">>, 11>>,
       <<<<"R", "1", "2">>, 12>>,
       <<<<"R", "1", "3">>, 13>>,
       <<<<"R", "1", "4">>, 14>>,
       <<<<"R", "1", "5">>, 15>>,
       <<<<"S", "C", "R", "E", "E", "N">>, 16384>>,
       <<<<"K", "B", "D">>, 24576>> >>

\* Assembler::new: the symbol table starts as the predefined symbols
InitSymbolTable ==
    [n \in {PREDEFINED_SYMBOL_TABLE[i][1] : i \in 1..Len(PREDEFINED_SYMBOL_TABLE)}
        |-> TableGet(PREDEFINED_SYMBOL_TABLE, n)]

\* HashMap::insert
MapInsert(m, k, v) == [x \in DOMAIN m \cup {k} |-> IF x = k THEN v ELSE m[x]]

\* Assembler::new / SingleVmTranslator::new: the lines kept from the file
RECURSIVE ReadCodes(_)
ReadCodes(lines) ==
    IF lines = <<>> THEN <<>>
    ELSE LET line == trim(Head(lines))
             rest == ReadCodes(Tail(lines))
         IN  IF line = <<>> \/ starts_with(line, "/") THEN rest
             ELSE IF find(line, "/") >= 0
                  THEN <<trim(substr(line, 0, find(line, "/")))>> \o rest
                  ELSE <<line>> \o rest

\* the variant of process_lable in which a label advances current_line too
RECURSIVE LabelPass_labels_counted(_, _, _, _)
LabelPass_labels_counted(lines, table, kept, current_line) ==
    IF lines = <<>> THEN [table |-> table, kept |-> kept]
    ELSE LET line == Head(lines)
         IN  IF starts_with(line, "(")
             THEN LabelPass_labels_counted(Tail(lines),
                            MapInsert(table, substr(line, 1, Len(line) - 2), current_line),
                            kept, current_line + 1)
             ELSE LabelPass_labels_counted(Tail(lines), table, Append(kept, line),
                                           current_line + 1)

\* Assembler::process_lable, the loop as a fold over the lines:
\* [table, kept, current_line]
RECURSIVE LabelPass(_, _, _, _)
LabelPass(lines, table, kept, current_line) ==
    IF lines = <<>> THEN [table |-> table, kept |-> kept]
    ELSE LET line == Head(lines)
         IN  IF starts_with(line, "(")
             THEN LabelPass(Tail(lines),
                            MapInsert(table, substr(line, 1, Len(line) - 2), current_line),
                            kept, current_line)
             ELSE LabelPass(Tail(lines), table, Append(kept, line), current_line + 1)

\* the variant of parse_a_command that does not look a symbol up
AValue_no_lookup(table, alloc, command) ==
    IF ParseOk(command) THEN ParseU32(command) ELSE alloc

\* Assembler::parse_a_command: the line written and the new table and counter;
\* command is the text after '@'
AValue(table, alloc, command) ==
    IF ParseOk(command) THEN ParseU32(command)
    ELSE IF command \in DOMAIN table THEN table[command]
    ELSE alloc

ATable(table, alloc, command) ==
    IF ParseOk(command) \/ command \in DOMAIN table THEN table
    ELSE MapInsert(table, command, alloc)

\* the variant of parse_a_command that leaves alloc_address as it is
AAlloc_not_advanced(table, alloc, command) == alloc

AAlloc(table, alloc, command) ==
    IF ParseOk(command) \/ command \in DOMAIN table THEN alloc
    ELSE alloc + 1

\* Assembler::parse_c_command: the three fields cut out of the line
CDest(command) ==
    IF find(command, "=") >= 0 THEN substr(command, 0, find(command, "="))
    ELSE <<"n", "u", "l", "l">>

CJmp(command) ==
    IF find(command, ";") >= 0
    THEN substr(command, find(command, ";") + 1, Len(command) - find(command, ";"))
    ELSE <<"n", "u", "l", "l">>

CCompLen(equal_loc, semicolon_loc) == semicolon_loc - equal_loc + 1

CComp(command) ==
    LET equal_loc == IF find(command, "=") >= 0 THEN find(command, "=") ELSE 0
        semicolon_loc == IF find(command, ";") >= 0 THEN find(command, ";") ELSE Len(command)
    IN  IF CDest(command) = <<"n", "u", "l", "l">>
        THEN substr(command, 0, semicolon_loc)
        ELSE substr(command, equal_loc + 1, CCompLen(equal_loc, semicolon_loc))

\* the three unwrap() of the table lookups succeed
CLookupOk(command) ==
    /\ TableHas(COMP_TABLE, CComp(command))
    /\ TableHas(DEST_TABLE, CDest(command))
    /\ TableHas(JMP_TABLE, CJmp(command))

CLine(command) ==
    <<"1", "1", "1">> \o TableGet(COMP_TABLE, CComp(command))
                      \o TableGet(DEST_TABLE, CDest(command))
                      \o TableGet(JMP_TABLE, CJmp(command))


\* ---- the assembler as a state machine ----

NULL == <<"n", "u", "l", "l">>

\* an input instruction: k is "A", "C" or "L"; num is the literal of "@num" or -1
AInstr(sym, num) == [k |-> "A", sym |-> sym, num |-> num, dest |-> None, comp |-> None, jmp |-> None]
LInstr(sym) == [k |-> "L", sym |-> sym, num |-> -1, dest |-> None, comp |-> None, jmp |-> None]
CInstr(dest, comp, jmp) == [k |-> "C", sym |-> None, num |-> -1, dest |-> dest, comp |-> comp, jmp |-> jmp]

\* the line of the .asm file an instruction is written as
AsmText(ins) ==
    CASE ins.k = "A" -> <<"@">> \o ins.sym
      [] ins.k = "L" -> <<"(">> \o ins.sym \o <<")">>
      [] OTHER -> (IF ins.dest = None THEN <<>> ELSE ins.dest \o <<"=">>)
                  \o ins.comp
                  \o (IF ins.jmp = None THEN <<>> ELSE <<";">> \o ins.jmp)

AsmItems ==
    { AInstr(<<"5">>, 5), AInstr(<<"3", "2", "7", "6", "7">>, 32767),
      AInstr(<<"S", "P">>, -1), AInstr(<<"L", "O", "O", "P">>, -1), AInstr(<<"i">>, -1),
      LInstr(<<"L", "O", "O", "P">>) }
    \cup { CInstr(d, c, j) :
             d \in {None, <<"D">>, <<"A", "M">>},
             c \in {<<"0">>, <<"M", "-", "1">>},
             j \in {None, <<"J", "M", "P">>, <<"J", "G", "T">>} }

AsmPrograms == UNION { [1..n -> AsmItems] : n \in 1..MaxAsmLen }

ParIdle == /\ par_tokens = <<>> /\ par_i = 0 /\ par_class = <<>> /\ par_pc = "idle"
           /\ par_log = <<>>
TokIdle == /\ jack_src = <<>> /\ tok_codes = <<>> /\ tokens = <<>> /\ tok_pc = "idle"
GenIdle == /\ ast = <<>> /\ context = <<>> /\ vm_output = <<>> /\ gen_pc = [st |-> "idle"]
           /\ gen_log = <<>>
VmtIdle == /\ vm_in = <<>> /\ asm_out = <<>> /\ rom = <<>> /\ cpu = <<>> /\ ram = <<>>
           /\ snap = <<>>
AsmIdle == /\ asm_src = <<>> /\ codes = <<>> /\ symbol_table = <<>> /\ output = <<>>
           /\ alloc_address = 0 /\ asm_pc = "idle" /\ cursor = 0

\* Assembler::new, for a program of the set programs
AsmStart(programs) ==
    /\ asm_src \in programs
    /\ codes = ReadCodes([i \in 1..Len(asm_src) |-> AsmText(asm_src[i])])
    /\ symbol_table = InitSymbolTable
    /\ output = <<>>
    /\ alloc_address = 16
    /\ asm_pc = "pass1"
    /\ cursor = 0
    /\ VmtIdle /\ GenIdle /\ TokIdle /\ ParIdle

AsmInit == AsmStart(AsmPrograms)

\* Assembler::process_lable
ProcessLable ==
    /\ asm_pc = "pass1"
    /\ LET r == LabelPass(codes, symbol_table, <<>>, 0)
       IN  /\ symbol_table' = r.table
           /\ codes' = r.kept
    /\ asm_pc' = "pass2"
    /\ UNCHANGED <<asm_src, output, alloc_address, cursor>>
    /\ UNCHANGED <<vmt_vars, gen_vars, tok_vars, par_vars>>

\* Assembler::parse, one line starting with '@': parse_a_command
ParseACommand ==
    /\ asm_pc = "pass2"
    /\ cursor < Len(codes)
    /\ starts_with(codes[cursor + 1], "@")
    /\ LET line == codes[cursor + 1]
           command == substr(line, 1, Len(line))
       IN  /\ output' = Append(output, Fmt016b(AValue(symbol_table, alloc_address, command)))
           /\ symbol_table' = ATable(symbol_table, alloc_address, command)
           /\ alloc_address' = AAlloc(symbol_table, alloc_address, command)
    /\ cursor' = cursor + 1
    /\ UNCHANGED <<asm_src, codes, asm_pc>>
    /\ UNCHANGED <<vmt_vars, gen_vars, tok_vars, par_vars>>

\* Assembler::parse, any other line: parse_c_command; a failed table lookup
\* panics in unwrap() and nothing of the line is written
ParseCCommand ==
    /\ asm_pc = "pass2"
    /\ cursor < Len(codes)
    /\ ~starts_with(codes[cursor + 1], "@")
    /\ LET command == codes[cursor + 1]
       IN  IF CLookupOk(command)
           THEN /\ output' = Append(output, CLine(command))
                /\ cursor' = cursor + 1
                /\ asm_pc' = asm_pc
           ELSE /\ asm_pc' = "panic"
                /\ UNCHANGED <<output, cursor>>
    /\ UNCHANGED <<asm_src, codes, symbol_table, alloc_address>>
    /\ UNCHANGED <<vmt_vars, gen_vars, tok_vars, par_vars>>

\* Assembler::save_binary, after the last line
SaveBinary ==
    /\ asm_pc = "pass2"
    /\ cursor = Len(codes)
    /\ asm_pc' = "done"
    /\ UNCHANGED <<asm_src, codes, symbol_table, output, alloc_address, cursor>>
    /\ UNCHANGED <<vmt_vars, gen_vars, tok_vars, par_vars>>

AsmNext == ProcessLable \/ ParseACommand \/ ParseCCommand \/ SaveBinary

SpecAsm == AsmInit /\ [][AsmNext]_vars

\* ---- claims on the assembler ----

\* the instructions of the input, label definitions left out
Instructions == SelectSeq(asm_src, LAMBDA ins : ins.k # "L")

IsBinaryLine(l) == Len(l) = 16 /\ \A i \in 1..16 : l[i] \in {"0", "1"}

\* bit i (1 = most significant) of the 15-bit binary of n
Bits15(n) == [i \in 1..15 |-> IF (n \div (2 ^ (15 - i))) % 2 = 1 THEN "1" ELSE "0"]

\* the value an A-instruction stands for once pass 2 has handled it
AIntended(ins) == IF ins.num >= 0 THEN ins.num ELSE symbol_table[ins.sym]

Started == asm_pc \in {"pass2", "done", "panic"}

\* C9: every instruction of the program gets exactly one output line of exactly
\* 16 characters '0'/'1'; the line of an A-instruction is '0' followed by the
\* 15-bit binary of its value.
C9_EveryInstructionOneBinaryLine ==
    Started =>
        /\ asm_pc # "panic"
        /\ Len(output) = cursor
        /\ \A i \in 1..Len(output) :
              /\ IsBinaryLine(output[i])
              /\ Instructions[i].k = "A" =>
                    output[i] = <<"0">> \o Bits15(AIntended(Instructions[i]))

TableOf(field) == IF field = None THEN NULL ELSE field

\* C10: a C-instruction dest=comp, comp;jmp or dest=comp;jmp is written as 111,
\* the 7-bit comp code, the 3-bit dest code and the 3-bit jmp code (000 for an
\* absent dest or jmp).
C10_CInstructionEncoding ==
    Started =>
        /\ asm_pc = "panic" => Instructions[cursor + 1].k # "C"
        /\ \A i \in 1..Len(output) :
              Instructions[i].k = "C" =>
                 output[i] = <<"1", "1", "1">>
                                \o TableGet(COMP_TABLE, Instructions[i].comp)
                                \o TableGet(DEST_TABLE, TableOf(Instructions[i].dest))
                                \o TableGet(JMP_TABLE, TableOf(Instructions[i].jmp))

-----------------------------------------------------------------------------
(* VM translator (vm_translator.rs) *)

ARITH_TABLE ==
    << <<<<"n", "o", "t">>, <<"!">>>>,
       <<<<"n", "e", "g">>, <<"-">>>>,
       <<<<"a", "d", "d">>, <<"+">>>>,
       <<<<"s", "u", "b">>, <<"-">>>>,
       <<<<"a", "n", "d">>, <<"&">>>>,
       <<<<"o", "r">>, <<"|">>>>,
       <<<<"e", "q">>, <<"J", "N", "E">>>>,
       <<<<"l", "t">>, <<"J", "L", "E">>>>,
       <<<<"g", "t">>, <<"J", "G", "E">>>> >>

SEGMENT_TABLE ==
    << <<<<"l", "o", "c", "a", "l">>, <<"L", "C", "L">>>>,
       <<<<"a", "r", "g", "u", "m", "e", "n", "t">>, <<"A", "R", "G">>>>,
       <<<<"t", "h", "i", "s">>, <<"T", "H", "I", "S">>>>,
       <<<<"t", "h", "a", "t">>, <<"T", "H", "A", "T">>>>,
       <<<<"t", "e", "m", "p">>, <<"5">>>>,
       <<<<"p", "o", "i", "n", "t", "e", "r">>, <<"3">>>> >>

\* str::split(' ')
RECURSIVE Split(_)
Split(s) == IF find(s, " ") < 0 THEN <<s>>
            ELSE <<substr(s, 0, find(s, " "))>> \o Split(substr(s, find(s, " ") + 1, Len(s)))

\* push_d
push_d == << <<"@", "S", "P">>, <<"A", "=", "M">>, <<"M", "=", "D">>, <<"@", "S", "P">>, <<"M", "=", "M", "+", "1">> >>

\* a SingleVmTranslator: the fields parse() reads and writes; panic is set by
\* an unreachable!() or a failed unwrap()
NewTranslator(vm_filename, symbol_index, return_index) ==
    [ vm_filename |-> vm_filename, output |-> <<>>, symbol_index |-> symbol_index,
      return_index |-> return_index, current_func |-> <<>>, panic |-> FALSE ]

Emit(t, lines) == [t EXCEPT !.output = @ \o lines]

\* the variant in which a binary command computes D <op> M
parse_c_arithmetic_operands_swapped(t, command) ==
    IF command \in {<<"n", "o", "t">>, <<"n", "e", "g">>}
    THEN Emit(t, << <<"@", "S", "P">>, <<"A", "=", "M", "-", "1">>,
                    <<"M", "=">> \o TableGet(ARITH_TABLE, command) \o <<"M">>, <<>> >>)
    ELSE IF command \in {<<"a", "d", "d">>, <<"s", "u", "b">>, <<"a", "n", "d">>, <<"o", "r">>}
    THEN Emit(t, << <<"@", "S", "P">>, <<"A", "M", "=", "M", "-", "1">>, <<"D", "=", "M">>, <<"A", "=", "A", "-", "1">>,
                    <<"M", "=", "D">> \o TableGet(ARITH_TABLE, command) \o <<"M">> >>)
    ELSE [t EXCEPT !.panic = TRUE]

\* SingleVmTranslator::parse_c_arithmetic
parse_c_arithmetic(t, command) ==
    IF command \in {<<"n", "o", "t">>, <<"n", "e", "g">>}
    THEN Emit(t, << <<"@", "S", "P">>, <<"A", "=", "M", "-", "1">>,
                    <<"M", "=">> \o TableGet(ARITH_TABLE, command) \o <<"M">>, <<>> >>)
    ELSE IF command \in {<<"a", "d", "d">>, <<"s", "u", "b">>, <<"a", "n", "d">>, <<"o", "r">>}
    THEN Emit(t, << <<"@", "S", "P">>, <<"A", "M", "=", "M", "-", "1">>, <<"D", "=", "M">>, <<"A", "=", "A", "-", "1">>,
                    <<"M", "=", "M">> \o TableGet(ARITH_TABLE, command) \o <<"D">> >>)
    ELSE IF command \in {<<"e", "q">>, <<"g", "t">>, <<"l", "t">>}
    THEN [ Emit(t, << <<"@", "S", "P">>, <<"A", "M", "=", "M", "-", "1">>, <<"D", "=", "M">>, <<"A", "=", "A", "-", "1">>, <<"D", "=", "M", "-", "D">>, <<"M", "=", "0">>,
                      <<"@">> \o command \o <<"_">> \o ToDec(t.symbol_index),
                      <<"D", ";">> \o TableGet(ARITH_TABLE, command),
                      <<"@", "S", "P">>, <<"A", "=", "M", "-", "1">>, <<"M", "=", "-", "1">>,
                      <<"(">> \o command \o <<"_">> \o ToDec(t.symbol_index) \o <<")">> >>)
           EXCEPT !.symbol_index = @ + 1 ]
    ELSE [t EXCEPT !.panic = TRUE]

\* SingleVmTranslator::parse_c_push
parse_c_push(t, command) ==
    IF command[2] = <<"c", "o", "n", "s", "t", "a", "n", "t">>
    THEN Emit(t, << <<"@">> \o command[3], <<"D", "=", "A">> >> \o push_d)
    ELSE IF command[2] \in {<<"l", "o", "c", "a", "l">>, <<"a", "r", "g", "u", "m", "e", "n", "t">>, <<"t", "h", "i", "s">>, <<"t", "h", "a", "t">>}
    THEN Emit(t, << <<"@">> \o command[3], <<"D", "=", "A">>,
                    <<"@">> \o TableGet(SEGMENT_TABLE, command[2]),
                    <<"A", "=", "M", "+", "D">>, <<"D", "=", "M">> >> \o push_d)
    ELSE IF command[2] \in {<<"t", "e", "m", "p">>, <<"p", "o", "i", "n", "t", "e", "r">>}
    THEN Emit(t, << <<"@">> \o command[3], <<"D", "=", "A">>,
                    <<"@">> \o TableGet(SEGMENT_TABLE, command[2]),
                    <<"A", "=", "A", "+", "D">>, <<"D", "=", "M">> >> \o push_d)
    ELSE IF command[2] = <<"s", "t", "a", "t", "i", "c">>
    THEN Emit(t, << <<"@">> \o t.vm_filename \o <<".">> \o command[3], <<"D", "=", "M">> >> \o push_d)
    ELSE [t EXCEPT !.panic = TRUE]

\* the tail of parse_c_pop: SP--, then put the value *SP into M[address]
pop_to_r15 == << <<"@", "S", "P">>, <<"A", "M", "=", "M", "-", "1">>, <<"D", "=", "M">>, <<"@", "R", "1", "5">>, <<"A", "=", "M">>, <<"M", "=", "D">> >>

\* SingleVmTranslator::parse_c_pop
parse_c_pop(t, command) ==
    IF command[2] \in {<<"l", "o", "c", "a", "l">>, <<"a", "r", "g", "u", "m", "e", "n", "t">>, <<"t", "h", "i", "s">>, <<"t", "h", "a", "t">>}
    THEN Emit(t, << <<"@">> \o command[3], <<"D", "=", "A">>,
                    <<"@">> \o TableGet(SEGMENT_TABLE, command[2]),
                    <<"D", "=", "M", "+", "D">>, <<"@", "R", "1", "5">>, <<"M", "=", "D">> >> \o pop_to_r15)
    ELSE IF command[2] \in {<<"t", "e", "m", "p">>, <<"p", "o", "i", "n", "t", "e", "r">>}
    THEN Emit(t, << <<"@">> \o command[3], <<"D", "=", "A">>,
                    <<"@">> \o TableGet(SEGMENT_TABLE, command[2]),
                    <<"D", "=", "A", "+", "D">>, <<"@", "R", "1", "5">>, <<"M", "=", "D">> >> \o pop_to_r15)
    ELSE IF command[2] = <<"s", "t", "a", "t", "i", "c">>
    THEN Emit(t, << <<"@">> \o t.vm_filename \o <<".">> \o command[3], <<"D", "=", "A">>,
                    <<"R", "1", "5">>, <<"M", "=", "D">> >> \o pop_to_r15)
    ELSE [t EXCEPT !.panic = TRUE]

\* SingleVmTranslator::parse_c_label
parse_c_label(t, command) ==
    Emit(t, << <<"(">> \o t.current_func \o <<"$">> \o command[2] \o <<")">> >>)

\* SingleVmTranslator::parse_c_goto
parse_c_goto(t, command) ==
    Emit(t, << <<"@">> \o t.current_func \o <<"$">> \o command[2], <<"0", ";", "J", "M", "P">> >>)

\* SingleVmTranslator::parse_c_if_goto
parse_c_if_goto(t, command) ==
    Emit(t, << <<"@", "S", "P">>, <<"A", "M", "=", "M", "-", "1">>, <<"D", "=", "M">>,
               <<"@">> \o t.current_func \o <<"$">> \o command[2], <<"D", ";", "J", "N", "E">> >>)

RECURSIVE Repeat(_, _)
Repeat(lines, k) == IF k <= 0 THEN <<>> ELSE lines \o Repeat(lines, k - 1)

\* SingleVmTranslator::parse_c_function
parse_c_function(t, command) ==
    IF ~ParseOk(command[3]) THEN [t EXCEPT !.panic = TRUE]
    ELSE Emit([t EXCEPT !.current_func = command[2]],
              << <<"(">> \o command[2] \o <<")">> >>
              \o Repeat(<< <<"@", "S", "P">>, <<"A", "=", "M">>, <<"M", "=", "0">>, <<"@", "S", "P">>, <<"M", "=", "M", "+", "1">> >>,
                        ParseU32(command[3])))

\* push LCL, ARG, THIS, THAT
push_segments ==
    << <<"@", "L", "C", "L">>, <<"D", "=", "M">> >> \o push_d \o << <<"@", "A", "R", "G">>, <<"D", "=", "M">> >> \o push_d
    \o << <<"@", "T", "H", "I", "S">>, <<"D", "=", "M">> >> \o push_d \o << <<"@", "T", "H", "A", "T">>, <<"D", "=", "M">> >> \o push_d

\* LCL = SP
set_lcl == << <<"@", "S", "P">>, <<"D", "=", "M">>, <<"@", "L", "C", "L">>, <<"M", "=", "D">> >>

\* ARG = SP - n - 5: the distance from SP down to the first argument
arg_offset(n) == n + 5

\* the lines parse_c_call writes for call f n with return_index j
call_lines(f, n, j) ==
    LET label == <<"E", "n", "d">> \o <<"$">> \o f \o <<"$">> \o ToDec(j)
    IN  << <<"@">> \o label, <<"D", "=", "A">> >> \o push_d
        \o push_segments
        \o << <<"@">> \o ToDec(arg_offset(ParseU32(n))),
              <<"D", "=", "A">>, <<"@", "S", "P">>, <<"D", "=", "M", "-", "D">>, <<"@", "A", "R", "G">>, <<"M", "=", "D">> >>
        \o set_lcl
        \o << <<"@">> \o f, <<"0", ";", "J", "M", "P">> >>
        \o << <<"(">> \o label \o <<")">> >>

\* SingleVmTranslator::parse_c_call
parse_c_call(t, command) ==
    IF ~ParseOk(command[3]) THEN [t EXCEPT !.panic = TRUE]
    ELSE [ Emit(t, call_lines(command[2], command[3], t.return_index))
           EXCEPT !.return_index = @ + 1 ]

\* the parts of parse_c_return, in the order they are written
return_frame == << <<"@", "L", "C", "L">>, <<"D", "=", "M">>, <<"@", "R", "1", "5">>, <<"M", "=", "D">> >>              \* FRAME = LCL
return_ret == << <<"@", "5">>, <<"D", "=", "A">>, <<"@", "R", "1", "5">>, <<"A", "=", "M", "-", "D">>, <<"D", "=", "M">>, <<"@", "R", "1", "4">>, <<"M", "=", "D">> >>
return_pop == << <<"@", "S", "P">>, <<"A", "M", "=", "M", "-", "1">>, <<"D", "=", "M">>, <<"@", "A", "R", "G">>, <<"A", "=", "M">>, <<"M", "=", "D">> >>   \* *ARG = pop()
return_sp == << <<"@", "A", "R", "G">>, <<"D", "=", "M", "+", "1">>, <<"@", "S", "P">>, <<"M", "=", "D">> >>                 \* SP = ARG + 1
return_that == << <<"@", "R", "1", "5">>, <<"A", "=", "M", "-", "1">>, <<"D", "=", "M">>, <<"@", "T", "H", "A", "T">>, <<"M", "=", "D">> >>     \* THAT = *(FRAME - 1)

\* THIS = *(FRAME - 2), ARG = *(FRAME - 3), LCL = *(FRAME - 4)
return_restore(i, seg) ==
    << <<"@">> \o ToDec(i + 2), <<"D", "=", "A">>, <<"@", "R", "1", "5">>, <<"A", "=", "M", "-", "D">>, <<"D", "=", "M">>, <<"@">> \o seg, <<"M", "=", "D">> >>

return_goto == << <<"@", "R", "1", "4">>, <<"A", "=", "M">>, <<"0", ";", "J", "M", "P">> >>

\* the variant in which the return address is read after *ARG = pop() has been written
return_lines_ret_after_pop ==
    return_frame \o return_pop \o return_ret \o return_sp \o return_that
    \o return_restore(0, <<"T", "H", "I", "S">>) \o return_restore(1, <<"A", "R", "G">>) \o return_restore(2, <<"L", "C", "L">>)
    \o return_goto

\* SingleVmTranslator::parse_c_return
return_lines ==
    return_frame \o return_ret \o return_pop \o return_sp \o return_that
    \o return_restore(0, <<"T", "H", "I", "S">>) \o return_restore(1, <<"A", "R", "G">>) \o return_restore(2, <<"L", "C", "L">>)
    \o return_goto

parse_c_return(t) == Emit(t, return_lines)

\* SingleVmTranslator::parse, one line of self.codes
parse_code(t, code) ==
    LET parts == Split(code)
    IN  CASE parts[1] = <<"p", "u", "s", "h">> -> parse_c_push(t, parts)
          [] parts[1] = <<"p", "o", "p">> -> parse_c_pop(t, parts)
          [] parts[1] = <<"l", "a", "b", "e", "l">> -> parse_c_label(t, parts)
          [] parts[1] = <<"g", "o", "t", "o">> -> parse_c_goto(t, parts)
          [] parts[1] = <<"i", "f", "-", "g", "o", "t", "o">> -> parse_c_if_goto(t, parts)
          [] parts[1] = <<"f", "u", "n", "c", "t", "i", "o", "n">> -> parse_c_function(t, parts)
          [] parts[1] = <<"c", "a", "l", "l">> -> parse_c_call(t, parts)
          [] parts[1] = <<"r", "e", "t", "u", "r", "n">> -> parse_c_return(t)
          [] OTHER -> parse_c_arithmetic(t, parts[1])

\* SingleVmTranslator::parse
RECURSIVE parse(_, _)
parse(t, cs) == IF cs = <<>> \/ t.panic THEN t ELSE parse(parse_code(t, Head(cs)), Tail(cs))

\* VmTranslator::run, the bootstrap written for a directory
bootstrap ==
    << <<"@", "2", "5", "6">>, <<"D", "=", "A">>, <<"@", "S", "P">>, <<"M", "=", "D">> >>
    \o << <<"@", "1">>, <<"D", "=", "A">>, <<"@", "L", "C", "L">>, <<"M", "=", "D">> >> \o << <<"@", "2">>, <<"D", "=", "A">>, <<"@", "A", "R", "G">>, <<"M", "=", "D">> >>
    \o << <<"@", "3">>, <<"D", "=", "A">>, <<"@", "T", "H", "I", "S">>, <<"M", "=", "D">> >> \o << <<"@", "4">>, <<"D", "=", "A">>, <<"@", "T", "H", "A", "T">>, <<"M", "=", "D">> >>
    \o << <<"@", "b", "o", "o", "t", "s", "t", "r", "a", "p">>, <<"D", "=", "A">> >> \o push_d
    \o push_segments
    \o << <<"@", "5">>, <<"D", "=", "A">>, <<"@", "S", "P">>, <<"D", "=", "M", "-", "D">>, <<"@", "A", "R", "G">>, <<"M", "=", "D">> >>
    \o set_lcl
    \o << <<"@", "S", "y", "s", ".", "i", "n", "i", "t">>, <<"0", ";", "J", "M", "P">>, <<"(", "b", "o", "o", "t", "s", "t", "r", "a", "p", ")">> >>

\* the variant of the loop in which every file starts its counters at 0
RECURSIVE run_files_counters_reset(_, _)
run_files_counters_reset(files, acc) ==
    IF files = <<>> \/ acc.panic THEN acc
    ELSE LET vm == parse(NewTranslator(Head(files).name, 0, 0), ReadCodes(Head(files).lines))
         IN  run_files_counters_reset(Tail(files),
                       [ output |-> acc.output \o vm.output,
                         symbol_index |-> vm.symbol_index,
                         return_index |-> vm.return_index,
                         panic |-> vm.panic ])

\* VmTranslator::run, the loop over the files: each file is [name, lines];
\* the result is [output, symbol_index, return_index, panic]
RECURSIVE run_files(_, _)
run_files(files, acc) ==
    IF files = <<>> \/ acc.panic THEN acc
    ELSE LET vm == parse(NewTranslator(Head(files).name, acc.symbol_index, acc.return_index),
                         ReadCodes(Head(files).lines))
         IN  run_files(Tail(files),
                       [ output |-> acc.output \o vm.output,
                         symbol_index |-> vm.symbol_index,
                         return_index |-> vm.return_index,
                         panic |-> vm.panic ])

\* VmTranslator::run
run(files, multi_files) ==
    run_files(files, [ output |-> IF multi_files THEN bootstrap ELSE <<>>,
                       symbol_index |-> 0, return_index |-> 0, panic |-> FALSE ])

-----------------------------------------------------------------------------
(* The Hack platform the emitted assembly runs on: the symbols and the      *)
(* instruction semantics of the Hack machine language.  Values are 16-bit   *)
(* words 0..WORD-1, read as two's complement by the jump conditions.        *)

Signed(v) == IF v >= WORD \div 2 THEN v - WORD ELSE v
Word(i) == ((i % WORD) + WORD) % WORD

RECURSIVE BitAnd(_, _, _)
BitAnd(x, y, n) == IF n = 0 THEN 0
                   ELSE ((x % 2) * (y % 2)) + 2 * BitAnd(x \div 2, y \div 2, n - 1)

RECURSIVE BitOr(_, _, _)
BitOr(x, y, n) == IF n = 0 THEN 0
                  ELSE Max(x % 2, y % 2) + 2 * BitOr(x \div 2, y \div 2, n - 1)

IsOperand(c) == c \in {"A", "D", "M", "0", "1"}

HackOperand(c, a, d, m) ==
    CASE c = "A" -> a [] c = "D" -> d [] c = "M" -> m [] c = "0" -> 0 [] OTHER -> 1

\* a computation the ALU can do: x, -x, !x, x+y, x-y, x&y, x|y
HackCompOk(comp) ==
    \/ Len(comp) = 1 /\ IsOperand(comp[1])
    \/ Len(comp) = 2 /\ comp[1] \in {"-", "!"} /\ IsOperand(comp[2])
    \/ Len(comp) = 3 /\ IsOperand(comp[1]) /\ comp[2] \in {"+", "-", "&", "|"}
                     /\ IsOperand(comp[3])

HackComp(comp, a, d, m) ==
    IF Len(comp) = 1 THEN HackOperand(comp[1], a, d, m)
    ELSE IF Len(comp) = 2
    THEN IF comp[1] = "-" THEN Word(0 - HackOperand(comp[2], a, d, m))
         ELSE WORD - 1 - HackOperand(comp[2], a, d, m)
    ELSE LET x == HackOperand(comp[1], a, d, m)
             y == HackOperand(comp[3], a, d, m)
         IN  CASE comp[2] = "+" -> Word(x + y)
               [] comp[2] = "-" -> Word(x - y)
               [] comp[2] = "&" -> BitAnd(x, y, 16)
               [] OTHER -> BitOr(x, y, 16)

HackJump(jmp, v) ==
    CASE jmp = <<"J", "G", "T">> -> Signed(v) > 0
      [] jmp = <<"J", "E", "Q">> -> v = 0
      [] jmp = <<"J", "G", "E">> -> Signed(v) >= 0
      [] jmp = <<"J", "L", "T">> -> Signed(v) < 0
      [] jmp = <<"J", "N", "E">> -> v # 0
      [] jmp = <<"J", "L", "E">> -> Signed(v) <= 0
      [] jmp = <<"J", "M", "P">> -> TRUE
      [] OTHER -> FALSE

\* the fields of a C-instruction dest=comp;jmp
HackDest(line) == IF find(line, "=") >= 0 THEN SubSeq(line, 1, find(line, "=")) ELSE <<>>
HackJmpOf(line) == IF find(line, ";") >= 0 THEN SubSeq(line, find(line, ";") + 2, Len(line)) ELSE <<>>
HackCompOf(line) ==
    SubSeq(line, IF find(line, "=") >= 0 THEN find(line, "=") + 2 ELSE 1,
                 IF find(line, ";") >= 0 THEN find(line, ";") ELSE Len(line))

IsNumber(s) == s # <<>> /\ \A i \in 1..Len(s) : IsDigit(s[i])

\* the address of the instruction written as line i of the program: the
\* number of instructions before it
HackAddress(asm, i) ==
    Cardinality({j \in 1..(i - 1) : asm[j] # <<>> /\ asm[j][1] # "("})

\* label -> address of the next instruction, on top of the predefined symbols
HackLabels(asm) ==
    LET defs == {i \in 1..Len(asm) : asm[i] # <<>> /\ asm[i][1] = "("}
        name(i) == SubSeq(asm[i], 2, Len(asm[i]) - 1)
        labels == [l \in {name(i) : i \in defs} |->
                     HackAddress(asm, CHOOSE i \in defs :
                                         name(i) = l /\ \A j \in defs : name(j) = l => j <= i)]
    IN  labels @@ InitSymbolTable

\* variable -> address: the symbols that are neither numbers nor in the table,
\* allocated from 16 in the order of their first use
HackVariables(asm, table) ==
    LET uses == {i \in 1..Len(asm) : /\ asm[i] # <<>> /\ asm[i][1] = "@"
                                     /\ ~IsNumber(Tail(asm[i]))
                                     /\ Tail(asm[i]) \notin DOMAIN table}
        first(s) == CHOOSE i \in uses : Tail(asm[i]) = s /\ \A j \in uses : Tail(asm[j]) = s => i <= j
        names == {Tail(asm[i]) : i \in uses}
    IN  [s \in names |-> 16 + Cardinality({t \in names : first(t) < first(s)})]

\* the instructions in order, symbols resolved
HackDecode(l, table) ==
    IF l[1] = "@"
    THEN [a |-> TRUE, val |-> IF IsNumber(Tail(l)) THEN DecVal(Tail(l)) ELSE table[Tail(l)],
          dest |-> <<>>, comp |-> <<>>, jmp |-> <<>>]
    ELSE [a |-> FALSE, val |-> 0, dest |-> HackDest(l), comp |-> HackCompOf(l),
          jmp |-> HackJmpOf(l)]

HackLoad(asm) ==
    LET labels == HackLabels(asm)
        table == HackVariables(asm, labels) @@ labels
        instrs == SelectSeq(asm, LAMBDA l : l # <<>> /\ l[1] # "(")
    IN  [code |-> [i \in 1..Len(instrs) |-> HackDecode(instrs[i], table)], labels |-> labels]

\* the return-address labels of the calls, End$<f>$<j>, each with the address
\* of the first instruction of its call sequence (the one loading the label)
IsReturnLabel(l) == Len(l) > 4 /\ SubSeq(l, 1, 4) = <<"E", "n", "d">> \o <<"$">>

CallStarts(asm) ==
    LET sites == {i \in 1..Len(asm) : asm[i] # <<>> /\ asm[i][1] = "@" /\ IsReturnLabel(Tail(asm[i]))}
    IN  [l \in {Tail(asm[i]) : i \in sites} |->
            HackAddress(asm, CHOOSE i \in sites : Tail(asm[i]) = l)]

Rd(mem, a) == IF a \in DOMAIN mem THEN mem[a] ELSE 0
Wr(mem, a, v) == [x \in DOMAIN mem \cup {a} |-> IF x = a THEN v ELSE mem[x]]

InChars(c, s) == \E i \in 1..Len(s) : s[i] = c

\* the addresses of the jumps that end a return sequence: @R14, A=M, 0;JMP
ReturnJumps(asm) ==
    { HackAddress(asm, i) : i \in {j \in 3..Len(asm) : /\ asm[j] = <<"0", ";", "J", "M", "P">>
                                                      /\ asm[j - 1] = <<"A", "=", "M">>
                                                      /\ asm[j - 2] = <<"@", "R", "1", "4">>} }

\* ---- translating a VM program and running it ----

\* cpu.st: "translate" before VmTranslator::run, "load" before the ROM is
\* loaded, "run" while the CPU executes, "panic" after a translator panic,
\* "fault" after an instruction the machine language does not have
CpuReset == [st |-> "translate", pc |-> 0, A |-> 0, D |-> 0]

\* the history of calls: the registers as each call began, and the calls that
\* have not returned yet, innermost first
NoCalls == [at |-> <<>>, pending |-> <<>>]

\* VmTranslator::run
VmRun ==
    /\ cpu.st = "translate"
    /\ LET r == run(vm_in.files, vm_in.multi_files)
       IN  /\ asm_out' = r.output
           /\ cpu' = [cpu EXCEPT !.st = IF r.panic THEN "panic" ELSE "load"]
    /\ UNCHANGED <<vm_in, rom, ram, snap>>
    /\ UNCHANGED <<asm_vars, gen_vars, tok_vars, par_vars>>

\* the program is placed in the ROM
RomLoad ==
    /\ cpu.st = "load"
    /\ rom' = [ code |-> HackLoad(asm_out).code, labels |-> HackLoad(asm_out).labels,
                 calls |-> CallStarts(asm_out), returns |-> ReturnJumps(asm_out) ]
    /\ cpu' = [cpu EXCEPT !.st = "run"]
    /\ UNCHANGED <<vm_in, asm_out, ram, snap>>
    /\ UNCHANGED <<asm_vars, gen_vars, tok_vars, par_vars>>

\* one instruction of the Hack CPU
CpuStep ==
    /\ cpu.st = "run"
    /\ cpu.pc < Len(rom.code)
    /\ LET ins == rom.code[cpu.pc + 1]
           v == HackComp(ins.comp, cpu.A, cpu.D, Rd(ram, cpu.A))
       IN  IF ins.a
           THEN /\ cpu' = [cpu EXCEPT !.A = ins.val, !.pc = @ + 1]
                /\ ram' = ram
           ELSE IF ~HackCompOk(ins.comp)
           THEN /\ cpu' = [cpu EXCEPT !.st = "fault"]
                /\ ram' = ram
           ELSE /\ cpu' = [cpu EXCEPT
                             !.A = IF InChars("A", ins.dest) THEN v ELSE @,
                             !.D = IF InChars("D", ins.dest) THEN v ELSE @,
                             !.pc = IF HackJump(ins.jmp, v) THEN cpu.A ELSE @ + 1]
                /\ ram' = IF InChars("M", ins.dest) THEN Wr(ram, cpu.A, v) ELSE ram
    /\ snap' = IF \E l \in DOMAIN rom.calls : rom.calls[l] = cpu.pc
               THEN LET l == CHOOSE l \in DOMAIN rom.calls : rom.calls[l] = cpu.pc
                    IN  [ at |-> MapInsert(snap.at, l,
                                   [sp |-> Rd(ram, 0), lcl |-> Rd(ram, 1), arg |-> Rd(ram, 2),
                                    this |-> Rd(ram, 3), that |-> Rd(ram, 4)]),
                          pending |-> <<l>> \o snap.pending ]
               ELSE IF cpu.pc \in rom.returns /\ snap.pending # <<>>
               THEN [snap EXCEPT !.pending = Tail(@)]
               ELSE snap
    /\ UNCHANGED <<vm_in, asm_out, rom>>
    /\ UNCHANGED <<asm_vars, gen_vars, tok_vars, par_vars>>

VmtNext == VmRun \/ RomLoad \/ CpuStep

\* the program has run to its last instruction
Finished == cpu.st = "run" /\ cpu.pc = Len(rom.code)

\* ---- comparison commands ----

CmpValues == {-2, -1, 0, 1, 2, 77}

\* VM code that pushes the value v: push constant |v|, negated for v < 0
PushValue(v) ==
    IF v >= 0 THEN << <<"p", "u", "s", "h", " ", "c", "o", "n", "s", "t", "a", "n", "t", " ">> \o ToDec(v) >>
    ELSE << <<"p", "u", "s", "h", " ", "c", "o", "n", "s", "t", "a", "n", "t", " ">> \o ToDec(0 - v), <<"n", "e", "g">> >>

CmpInit ==
    /\ vm_in \in { [ op |-> op, x |-> x, y |-> y, multi_files |-> FALSE,
                     files |-> << [ name |-> <<"C", "m", "p">>,
                                    lines |-> PushValue(x) \o PushValue(y) \o <<op>> ] >> ] :
                   op \in {<<"e", "q">>, <<"g", "t">>, <<"l", "t">>}, x \in CmpValues, y \in CmpValues }
    /\ asm_out = <<>>
    /\ rom = <<>>
    /\ cpu = CpuReset
    /\ ram = (0 :> 256)
    /\ snap = NoCalls
    /\ AsmIdle /\ GenIdle /\ TokIdle /\ ParIdle

SpecCmp == CmpInit /\ [][VmtNext]_vars

CmpHolds(op, x, y) ==
    CASE op = <<"e", "q">> -> x = y
      [] op = <<"g", "t">> -> x > y
      [] OTHER -> x < y

\* C1: eq, gt, lt with x pushed first and y second pop both operands and push
\* -1 when x = y, x > y, x < y respectively and 0 otherwise; SP ends one below
\* its value before the command (two operands were on the stack from 256).
C1_ComparisonResult ==
    Finished =>
        /\ Rd(ram, 0) = 257
        /\ Rd(ram, 256) = IF CmpHolds(vm_in.op, vm_in.x, vm_in.y) THEN Word(-1) ELSE 0

-----------------------------------------------------------------------------
(* call / function / return *)

MaxArgs == 2        \* arguments of the call
MaxLocals == 2      \* locals of the callee

\* the bodies of the callee and the value each returns; "local" needs a local
\* and "arg" an argument
CallBodies == {"const", "clobber", "local", "arg", "nested"}

BodyLines(b) ==
    CASE b = "const" -> << <<"p", "u", "s", "h", " ", "c", "o", "n", "s", "t", "a", "n", "t", " ", "4", "2">> >>
      [] b = "clobber" -> << <<"p", "u", "s", "h", " ", "c", "o", "n", "s", "t", "a", "n", "t", " ", "9">>, <<"p", "o", "p", " ", "p", "o", "i", "n", "t", "e", "r", " ", "0">>,
                             <<"p", "u", "s", "h", " ", "c", "o", "n", "s", "t", "a", "n", "t", " ", "8">>, <<"p", "o", "p", " ", "p", "o", "i", "n", "t", "e", "r", " ", "1">>,
                             <<"p", "u", "s", "h", " ", "c", "o", "n", "s", "t", "a", "n", "t", " ", "4", "2">> >>
      [] b = "local" -> << <<"p", "u", "s", "h", " ", "c", "o", "n", "s", "t", "a", "n", "t", " ", "5">>, <<"p", "o", "p", " ", "l", "o", "c", "a", "l", " ", "0">>, <<"p", "u", "s", "h", " ", "l", "o", "c", "a", "l", " ", "0">> >>
      [] b = "arg" -> << <<"p", "u", "s", "h", " ", "a", "r", "g", "u", "m", "e", "n", "t", " ", "0">> >>
      [] OTHER -> << <<"c", "a", "l", "l", " ", "L", "i", "b", ".", "g", " ", "0">> >>

BodyValue(b) ==
    CASE b = "const" -> 42 [] b = "clobber" -> 42 [] b = "local" -> 5
      [] b = "arg" -> 11 [] OTHER -> 17

\* push constant 11, push constant 12, ...: the n arguments
RECURSIVE PushArgs(_, _)
PushArgs(i, n) == IF i > n THEN <<>>
                  ELSE << <<"p", "u", "s", "h", " ", "c", "o", "n", "s", "t", "a", "n", "t", " ">> \o ToDec(10 + i) >> \o PushArgs(i + 1, n)

CallProgram(n, k, b) ==
    << <<"f", "u", "n", "c", "t", "i", "o", "n", " ", "M", "a", "i", "n", ".", "m", "a", "i", "n", " ", "0">> >>
    \o PushArgs(1, n)
    \o << <<"c", "a", "l", "l", " ", "L", "i", "b", ".", "f", " ">> \o ToDec(n), <<"l", "a", "b", "e", "l", " ", "E", "N", "D">>, <<"g", "o", "t", "o", " ", "E", "N", "D">> >>
    \o << <<"f", "u", "n", "c", "t", "i", "o", "n", " ", "L", "i", "b", ".", "f", " ">> \o ToDec(k) >>
    \o BodyLines(b)
    \o << <<"r", "e", "t", "u", "r", "n">> >>
    \o << <<"f", "u", "n", "c", "t", "i", "o", "n", " ", "L", "i", "b", ".", "g", " ", "0">>, <<"p", "u", "s", "h", " ", "c", "o", "n", "s", "t", "a", "n", "t", " ", "1", "7">>, <<"r", "e", "t", "u", "r", "n">> >>

\* the calls of the program: the argument count and the value returned
CallsOf(n, b) ==
    IF b = "nested"
    THEN (<<"E", "n", "d">> \o <<"$">> \o <<"L", "i", "b", ".", "f">> \o <<"$">> \o <<"0">> :> [n |-> n, ret |-> 17])
         @@ (<<"E", "n", "d">> \o <<"$">> \o <<"L", "i", "b", ".", "g">> \o <<"$">> \o <<"1">> :> [n |-> 0, ret |-> 17])
    ELSE (<<"E", "n", "d">> \o <<"$">> \o <<"L", "i", "b", ".", "f">> \o <<"$">> \o <<"0">> :> [n |-> n, ret |-> BodyValue(b)])

\* the segment pointers of the caller
CallerSegments == { <<300, 400, 3000, 4000>>, <<1, 2, 3, 4>> }

CallInit ==
    /\ \E n \in 0..MaxArgs, k \in 0..MaxLocals, b \in CallBodies :
          /\ b = "local" => k >= 1
          /\ b = "arg" => n >= 1
          /\ vm_in = [ multi_files |-> FALSE, calls |-> CallsOf(n, b),
                       files |-> << [name |-> <<"M", "a", "i", "n">>, lines |-> CallProgram(n, k, b)] >> ]
    /\ asm_out = <<>>
    /\ rom = <<>>
    /\ cpu = CpuReset
    /\ \E s \in CallerSegments :
          ram = (0 :> 256 @@ 1 :> s[1] @@ 2 :> s[2] @@ 3 :> s[3] @@ 4 :> s[4])
    /\ snap = NoCalls
    /\ AsmIdle /\ GenIdle /\ TokIdle /\ ParIdle

SpecCall == CallInit /\ [][VmtNext]_vars

\* control is at the return-address label of call l
AtReturnLabel(l) == cpu.st = "run" /\ l \in DOMAIN snap.at /\ cpu.pc = rom.labels[l]

\* the frame of call l is as the claim says
FrameRestored(l) ==
    /\ Rd(ram, 1) = snap.at[l].lcl
    /\ Rd(ram, 2) = snap.at[l].arg
    /\ Rd(ram, 3) = snap.at[l].this
    /\ Rd(ram, 4) = snap.at[l].that
    /\ Rd(ram, snap.at[l].sp - vm_in.calls[l].n) = vm_in.calls[l].ret
    /\ Rd(ram, 0) = snap.at[l].sp - vm_in.calls[l].n + 1

\* the jump that ends a return sequence goes to the return-address label of
\* the innermost call that has not returned, the instruction after its jump
ReturnsToCaller ==
    (cpu.st = "run" /\ cpu.pc \in rom.returns) =>
        /\ snap.pending # <<>>
        /\ cpu'.pc = rom.labels[Head(snap.pending)]
        /\ cpu'.pc = rom.calls[Head(snap.pending)] + Len(call_lines(<<"f">>, <<"0">>, 0)) - 1

\* C2: a call f n whose callee runs to a return continues at the return-address
\* label written after the call, and there LCL, ARG, THIS and THAT hold the
\* values they had when the call began, the return value is at the address of
\* the first argument (SP at the call minus n) and SP points just past it.
C2_CallReturnRestoresFrame ==
    /\ [][ReturnsToCaller]_vars
    /\ [](\A l \in DOMAIN vm_in.calls : AtReturnLabel(l) => FrameRestored(l))

\* a call without arguments has returned: its return value took the place of
\* the return address
C2_Witness ==
    \E l \in DOMAIN vm_in.calls :
        AtReturnLabel(l) /\ vm_in.calls[l].n = 0 /\ snap.at[l].that = 4000 /\ FrameRestored(l)

-----------------------------------------------------------------------------
(* Jack code generator (vm_writer.rs, symbol_table.rs, ast.rs) *)

\* ---- ast.rs ----

\* VarType
IntType == [ty |-> "int", class |-> <<>>]
ClassType(name) == [ty |-> "class", class |-> name]

\* Option::None of an optional expression or statement list
NoExpr == [e |-> "none"]
NoElse == [some |-> FALSE, body |-> <<>>]
Else(body) == [some |-> TRUE, body |-> body]

\* Term
IntegerConst(n) == [t |-> "int", n |-> n]
StringConst(s) == [t |-> "str", v |-> s]
KeywordConst(k) == [t |-> "kw", k |-> k]
VarName(n) == [t |-> "var", v |-> n]
ArrayTerm(n, index) == [t |-> "array", v |-> n, index |-> index]
CallTerm(call) == [t |-> "call", call |-> call]
ParenTerm(e) == [t |-> "paren", e |-> e]
UnaryTerm(op, term) == [t |-> "unary", term |-> term, op |-> op]

\* Expression, OpTerm
Expr(term, op_terms) == [e |-> "expr", term |-> term, op_terms |-> op_terms]
OpTerm(op, term) == [op |-> op, term |-> term]
E1(term) == Expr(term, <<>>)

\* SubroutineCall
InternalCall(name, args) ==
    [c |-> "internal", name |-> name, subroutine_name |-> <<>>, args |-> args]
ExternalCall(name, subroutine_name, args) ==
    [c |-> "external", name |-> name, subroutine_name |-> subroutine_name, args |-> args]

\* Statement
LetStatement(var_name, array_index, right_expr) ==
    [s |-> "let", var_name |-> var_name, array_index |-> array_index, right_expr |-> right_expr]
IfStatement(cond, if_body, else_body) ==
    [s |-> "if", cond |-> cond, if_body |-> if_body, else_body |-> else_body]
WhileStatement(cond, body) == [s |-> "while", cond |-> cond, body |-> body]
DoStatement(call) == [s |-> "do", subroutine_call |-> call]
ReturnStatement(expr) == [s |-> "return", expr |-> expr]

\* ---- symbol_table.rs ----

\* SymbolTable::new, SymbolTable::reset
NewSymbolTable ==
    [ table |-> <<>>,
      kind_index |-> [k \in {"static", "field", "argument", "local"} |-> 0] ]

\* the variant in which the running index of the kind is not advanced
define_index_not_advanced(st, name, type_, kind) ==
    LET index == st.kind_index[kind]
    IN  [ table |-> MapInsert(st.table, name,
                              [name |-> name, type_ |-> type_, kind |-> kind, index |-> index]),
          kind_index |-> st.kind_index ]

\* SymbolTable::define
define(st, name, type_, kind) ==
    LET index == st.kind_index[kind]
    IN  [ table |-> MapInsert(st.table, name,
                              [name |-> name, type_ |-> type_, kind |-> kind, index |-> index]),
          kind_index |-> [st.kind_index EXCEPT ![kind] = index + 1] ]

\* SymbolTable::var_count
var_count(st, kind) == st.kind_index[kind]

\* impl From<VarKind> for Segment, with Segment's Display
SegmentOf(kind) ==
    CASE kind = "static" -> <<"s", "t", "a", "t", "i", "c">>
      [] kind = "field" -> <<"t", "h", "i", "s">>
      [] kind = "argument" -> <<"a", "r", "g", "u", "m", "e", "n", "t">>
      [] OTHER -> <<"l", "o", "c", "a", "l">>

\* ---- vm_writer.rs: VmContext together with the VmCommandWriter ----

\* VmContext::new; order is the order in which the HashMap of a scope is
\* iterated, as the rank of each index
NewContext(class_name, order) ==
    [ class_name |-> class_name, class_scope |-> NewSymbolTable,
      method_scope |-> NewSymbolTable, method_name |-> <<>>, method_kind |-> "none",
      lable_count |-> 0, order |-> order, panic |-> FALSE ]

\* the context c with the writer's output out
Gen(c, out) ==
    [ class_name |-> c.class_name, class_scope |-> c.class_scope,
      method_scope |-> c.method_scope, method_name |-> c.method_name,
      method_kind |-> c.method_kind, lable_count |-> c.lable_count,
      order |-> c.order, panic |-> c.panic, out |-> out ]

ContextOf(g) ==
    [ class_name |-> g.class_name, class_scope |-> g.class_scope,
      method_scope |-> g.method_scope, method_name |-> g.method_name,
      method_kind |-> g.method_kind, lable_count |-> g.lable_count,
      order |-> g.order, panic |-> g.panic ]

\* start_subroutine that does not reset the scope of the subroutine
start_subroutine_keeps_scope(g, name, kind) ==
    [g EXCEPT !.method_name = name, !.method_kind = kind]

\* VmContext::start_subroutine
start_subroutine(g, name, kind) ==
    [g EXCEPT !.method_scope = NewSymbolTable, !.method_name = name, !.method_kind = kind]

\* VmContext::define_class_var, VmContext::define_method_var
define_class_var(g, name, type_, kind) ==
    [g EXCEPT !.class_scope = define(@, name, type_, kind)]
define_method_var(g, name, type_, kind) ==
    [g EXCEPT !.method_scope = define(@, name, type_, kind)]

\* VmContext::find, VmContext::get
ctx_find(g, name) ==
    name \in DOMAIN g.method_scope.table \/ name \in DOMAIN g.class_scope.table
ctx_get(g, name) ==
    IF name \in DOMAIN g.method_scope.table THEN g.method_scope.table[name]
    ELSE g.class_scope.table[name]

\* VmContext::current_function
current_function(g) == g.class_name \o <<".">> \o g.method_name

\* VmContext::local_variables: the values of the method scope in the
\* iteration order of the HashMap
local_variables(g) ==
    LET vs == {g.method_scope.table[n] : n \in DOMAIN g.method_scope.table}
        rank(v) == IF v.kind = "local" /\ v.index < Len(g.order)
                   THEN g.order[v.index + 1] ELSE Len(g.order) + v.index
        before(v, w) == \/ rank(v) < rank(w)
                        \/ rank(v) = rank(w) /\ v.index < w.index
                        \/ rank(v) = rank(w) /\ v.index = w.index /\ v.kind = "argument"
                           /\ w.kind = "local"
    IN  [i \in 1..Cardinality(vs) |->
            CHOOSE v \in vs : Cardinality({w \in vs : before(w, v)}) = i - 1]

\* VmCommandWriter
Out(g, line) == [g EXCEPT !.out = Append(@, line)]

write_push(g, segment, index) ==
    Out(g, <<"p", "u", "s", "h", " ">> \o segment \o <<" ">> \o ToDec(index))

pop_word == <<"p", "u", "s", "h">>

write_pop(g, segment, index) ==
    Out(g, pop_word \o <<" ">> \o segment \o <<" ">> \o ToDec(index))

write_arithmetic(g, command) == Out(g, command)
write_label(g, label) == Out(g, <<"l", "a", "b", "e", "l", " ">> \o label)
write_goto(g, label) == Out(g, <<"g", "o", "t", "o", " ">> \o label)
write_if_goto(g, label) == Out(g, <<"i", "f", "-", "g", "o", "t", "o", " ">> \o label)
write_call(g, name, args_count) == Out(g, <<"c", "a", "l", "l", " ">> \o name \o <<" ">> \o ToDec(args_count))
write_function(g, name, args_count) ==
    Out(g, <<"f", "u", "n", "c", "t", "i", "o", "n", " ">> \o name \o <<" ">> \o ToDec(args_count))
write_return(g) == Out(g, <<"r", "e", "t", "u", "r", "n">>)

Panic(g) == [g EXCEPT !.panic = TRUE]

\* impl VmWrite for Op, impl VmWrite for UnaryOp
write_op(g, op) ==
    CASE op = "+" -> write_arithmetic(g, <<"a", "d", "d">>)
      [] op = "-" -> write_arithmetic(g, <<"s", "u", "b">>)
      [] op = "*" -> write_call(g, <<"M", "a", "t", "h", ".", "m", "u", "l", "t", "i", "p", "l", "y">>, 2)
      [] op = "/" -> write_call(g, <<"M", "a", "t", "h", ".", "d", "i", "v", "i", "d", "e">>, 2)
      [] op = "&" -> write_arithmetic(g, <<"a", "n", "d">>)
      [] op = "|" -> write_arithmetic(g, <<"o", "r">>)
      [] op = ">" -> write_arithmetic(g, <<"g", "t">>)
      [] op = "<" -> write_arithmetic(g, <<"l", "t">>)
      [] OTHER -> write_arithmetic(g, <<"e", "q">>)

write_unary_op(g, op) ==
    IF op = "-" THEN write_arithmetic(g, <<"n", "e", "g">>) ELSE write_arithmetic(g, <<"n", "o", "t">>)

\* the code of a character (c as u32), for letters, digits and the space
UPPER ==
    << "A", "B", "C", "D", "E", "F", "G", "H", "I", "J", "K", "L", "M",
       "N", "O", "P", "Q", "R", "S", "T", "U", "V", "W", "X", "Y", "Z" >>
LOWER ==
    << "a", "b", "c", "d", "e", "f", "g", "h", "i", "j", "k", "l", "m",
       "n", "o", "p", "q", "r", "s", "t", "u", "v", "w", "x", "y", "z" >>

IndexOf(table, c) == CHOOSE i \in 1..Len(table) : table[i] = c

CharCode(c) ==
    CASE c = " " -> 32
      [] IsDigit(c) -> 48 + DigitVal(c)
      [] \E i \in 1..Len(UPPER) : UPPER[i] = c -> 64 + IndexOf(UPPER, c)
      [] OTHER -> 96 + IndexOf(LOWER, c)

RECURSIVE write_term(_, _)
RECURSIVE write_expr(_, _)
RECURSIVE write_op_terms(_, _)
RECURSIVE write_args(_, _)
RECURSIVE write_subroutine_call(_, _)
RECURSIVE write_statement(_, _)
RECURSIVE write_statements(_, _)

\* impl VmWrite for Expression
write_expr(g, e) == write_op_terms(write_term(g, e.term), e.op_terms)

write_op_terms(g, ots) ==
    IF ots = <<>> \/ g.panic THEN g
    ELSE write_op_terms(write_op(write_term(g, Head(ots).term), Head(ots).op), Tail(ots))

\* impl VmWrite for Args
write_args(g, args) ==
    IF args = <<>> \/ g.panic THEN g
    ELSE write_args(write_expr(g, Head(args)), Tail(args))

\* impl VmWrite for Array
write_array(g, a) ==
    LET g1 == write_expr(g, a.index)
    IN  IF g1.panic \/ ~ctx_find(g1, a.v) THEN Panic(g1)
        ELSE LET var == ctx_get(g1, a.v)
                 g2 == write_push(g1, SegmentOf(var.kind), var.index)
                 g3 == write_op(g2, "+")
                 g4 == write_pop(g3, <<"p", "o", "i", "n", "t", "e", "r">>, 1)
             IN  write_push(g4, <<"t", "h", "a", "t">>, 0)

\* impl VmWrite for Term, the StringConst arm
write_string_const(g, v) ==
    LET g1 == IF ~ctx_find(g, v)
              THEN define_method_var(g, v, ClassType(<<"S", "t", "r", "i", "n", "g">>), "local")
              ELSE g
    IN  write_push(g1, <<"l", "o", "c", "a", "l">>, ctx_get(g1, v).index)

\* impl VmWrite for Term, impl VmWrite for UnaryExpression
write_term(g, term) ==
    IF g.panic THEN g
    ELSE CASE term.t = "int" -> write_push(g, <<"c", "o", "n", "s", "t", "a", "n", "t">>, term.n)
           [] term.t = "kw" ->
                 ( CASE term.k \in {"null", "false"} -> write_push(g, <<"c", "o", "n", "s", "t", "a", "n", "t">>, 0)
                     [] term.k = "true" -> write_unary_op(write_push(g, <<"c", "o", "n", "s", "t", "a", "n", "t">>, 0), "~")
                     [] OTHER -> write_push(g, <<"p", "o", "i", "n", "t", "e", "r">>, 0) )
           [] term.t = "str" -> write_string_const(g, term.v)
           [] term.t = "var" ->
                 IF ~ctx_find(g, term.v) THEN Panic(g)
                 ELSE write_push(g, SegmentOf(ctx_get(g, term.v).kind), ctx_get(g, term.v).index)
           [] term.t = "paren" -> write_expr(g, term.e)
           [] term.t = "array" -> write_array(g, term)
           [] term.t = "unary" ->
                 LET g1 == write_term(g, term.term)
                 IN  IF g1.panic THEN g1 ELSE write_unary_op(g1, term.op)
           [] OTHER -> write_subroutine_call(g, term.call)

\* the argument count written by a method call on the current object
internal_args_count(n) == n

\* impl VmWrite for InternalCall
write_internal_call(g, call) ==
    LET g1 == write_push(g, <<"p", "o", "i", "n", "t", "e", "r">>, 0)
        g2 == write_args(g1, call.args)
    IN  IF g2.panic THEN g2
        ELSE write_call(g2, g.class_name \o <<".">> \o call.name,
                        internal_args_count(Len(call.args)))

\* the name and the argument count written by a method call on a variable of
\* class `class`: call is the ExternalCall
method_call_name(class, call) == class \o <<".">> \o call.name
method_args_count(n) == n

\* impl VmWrite for ExternalCall
write_external_call(g, call) ==
    IF ctx_find(g, call.name)
    THEN LET var == ctx_get(g, call.name)
         IN  IF var.type_.ty # "class" THEN Panic(g)
             ELSE LET g1 == write_push(g, SegmentOf(var.kind), var.index)
                      g2 == write_args(g1, call.args)
                  IN  IF g2.panic THEN g2
                      ELSE write_call(g2, method_call_name(var.type_.class, call),
                                      method_args_count(Len(call.args)))
    ELSE LET g2 == write_args(g, call.args)
         IN  IF g2.panic THEN g2
             ELSE write_call(g2, call.name \o <<".">> \o call.subroutine_name, Len(call.args))

\* impl VmWrite for SubroutineCall
write_subroutine_call(g, call) ==
    IF g.panic THEN g
    ELSE IF call.c = "internal" THEN write_internal_call(g, call)
    ELSE write_external_call(g, call)

\* impl VmWrite for LetStatement
write_let(g, st) ==
    LET g1 == write_expr(g, st.right_expr)
    IN  IF g1.panic THEN g1
        ELSE IF st.array_index # NoExpr
        THEN LET g2 == write_expr(g1, st.array_index)
             IN  IF g2.panic \/ ~ctx_find(g2, st.var_name) THEN Panic(g2)
                 ELSE LET var == ctx_get(g2, st.var_name)
                          g3 == write_push(g2, SegmentOf(var.kind), var.index)
                          g4 == write_op(g3, "+")
                          g5 == write_pop(g4, <<"p", "o", "i", "n", "t", "e", "r">>, 1)
                      IN  write_pop(g5, <<"t", "h", "a", "t">>, 0)
        ELSE IF ~ctx_find(g1, st.var_name) THEN Panic(g1)
        ELSE write_pop(g1, SegmentOf(ctx_get(g1, st.var_name).kind),
                       ctx_get(g1, st.var_name).index)

\* VmContext::inc_label
inc_label(g) == [g EXCEPT !.lable_count = @ + 1]

\* write_if without the goto that ends the else part
write_if_else_falls_through(g, st) ==
    LET then_label == <<"i", "f", "_">> \o ToDec(g.lable_count)
        end_label == <<"f", "i", "_">> \o ToDec(g.lable_count + 1)
        g1 == write_expr(inc_label(inc_label(g)), st.cond)
        g2 == write_if_goto(g1, then_label)
        g3 == IF st.else_body.some THEN write_statements(g2, st.else_body.body) ELSE g2
        g4 == write_label(g3, then_label)
        g5 == write_statements(g4, st.if_body)
    IN  IF g1.panic THEN g1
        ELSE IF g3.panic THEN g3
        ELSE IF g5.panic THEN g5
        ELSE write_label(g5, end_label)

\* impl VmWrite for IfStatement
write_if(g, st) ==
    LET then_label == <<"i", "f", "_">> \o ToDec(g.lable_count)
        end_label == <<"f", "i", "_">> \o ToDec(g.lable_count + 1)
        g1 == write_expr(inc_label(inc_label(g)), st.cond)
        g2 == write_if_goto(g1, then_label)
        g3 == IF st.else_body.some THEN write_statements(g2, st.else_body.body) ELSE g2
        g4 == write_label(write_goto(g3, end_label), then_label)
        g5 == write_statements(g4, st.if_body)
    IN  IF g1.panic THEN g1
        ELSE IF g3.panic THEN g3
        ELSE IF g5.panic THEN g5
        ELSE write_label(g5, end_label)

\* the branch written after the condition of a while statement
write_while_branch(g, loop_end_label) == write_if_goto(g, loop_end_label)

\* impl VmWrite for WhileStatement
write_while(g, st) ==
    LET loop_start_label == <<"l", "o", "o", "p", "_", "s", "t", "a", "r", "t", "_">> \o ToDec(g.lable_count)
        loop_end_label == <<"l", "o", "o", "p", "_", "e", "n", "d", "_">> \o ToDec(g.lable_count + 1)
        g1 == write_expr(write_label(inc_label(inc_label(g)), loop_start_label), st.cond)
        g2 == write_while_branch(g1, loop_end_label)
        g3 == write_statements(g2, st.body)
    IN  IF g1.panic THEN g1
        ELSE IF g3.panic THEN g3
        ELSE write_label(write_goto(g3, loop_start_label), loop_end_label)

\* impl VmWrite for DoStatement
write_do(g, st) ==
    LET g1 == write_subroutine_call(g, st.subroutine_call)
    IN  IF g1.panic THEN g1 ELSE write_pop(g1, <<"t", "e", "m", "p">>, 0)

IsStringLocal(var) == var.kind = "local" /\ var.type_ = ClassType(<<"S", "t", "r", "i", "n", "g">>)

\* impl VmWrite for ReturnStatement, the loop over the local variables
RECURSIVE write_dispose(_, _)
write_dispose(g, vs) ==
    IF vs = <<>> THEN g
    ELSE write_dispose(IF IsStringLocal(Head(vs))
                       THEN write_call(write_push(g, <<"l", "o", "c", "a", "l">>, Head(vs).index),
                                       <<"S", "t", "r", "i", "n", "g", ".", "d", "i", "s", "p", "o", "s", "e">>, 1)
                       ELSE g,
                       Tail(vs))

\* impl VmWrite for ReturnStatement
write_return_statement(g, st) ==
    LET g1 == write_dispose(g, local_variables(g))
        g2 == IF st.expr # NoExpr THEN write_expr(g1, st.expr)
              ELSE write_push(g1, <<"c", "o", "n", "s", "t", "a", "n", "t">>, 0)
    IN  IF g2.panic THEN g2 ELSE write_return(g2)

\* impl VmWrite for Statement
write_statement(g, st) ==
    IF g.panic THEN g
    ELSE CASE st.s = "let" -> write_let(g, st)
           [] st.s = "if" -> write_if(g, st)
           [] st.s = "while" -> write_while(g, st)
           [] st.s = "do" -> write_do(g, st)
           [] OTHER -> write_return_statement(g, st)

write_statements(g, sts) ==
    IF sts = <<>> \/ g.panic THEN g
    ELSE write_statements(write_statement(g, Head(sts)), Tail(sts))

\* ---- ast.rs: declarations ----

Param(var_type, name) == [var_type |-> var_type, name |-> name]
VarDec(type_, names) == [type_ |-> type_, names |-> names]
ClassVarDec(kind, type_, names) == [kind |-> kind, type_ |-> type_, names |-> names]
SubroutineBody(local_vars, body) == [local_vars |-> local_vars, body |-> body]
SubroutineDec(kind, name, params, body) ==
    [kind |-> kind, name |-> name, params |-> params, body |-> body]
Class(name, class_vars, subroutines) ==
    [name |-> name, vars |-> class_vars, subroutines |-> subroutines]

\* ---- vm_writer.rs: class and subroutine ----

\* VmContext::object_fields_count, local_var_count, param_count
object_fields_count(g) == var_count(g.class_scope, "field")
local_var_count(g) == var_count(g.method_scope, "local")
param_count(g) == var_count(g.method_scope, "argument")

RECURSIVE define_class_names(_, _, _)
define_class_names(g, var, names) ==
    IF names = <<>> THEN g
    ELSE define_class_names(define_class_var(g, Head(names), var.type_, var.kind),
                            var, Tail(names))

\* impl VmWrite for Class, the loop over the class variables
RECURSIVE define_class_vars(_, _)
define_class_vars(g, class_vars) ==
    IF class_vars = <<>> THEN g
    ELSE define_class_vars(define_class_names(g, Head(class_vars), Head(class_vars).names),
                           Tail(class_vars))

RECURSIVE define_params(_, _)
define_params(g, params) ==
    IF params = <<>> THEN g
    ELSE define_params(define_method_var(g, Head(params).name, Head(params).var_type,
                                         "argument"),
                       Tail(params))

RECURSIVE define_local_names(_, _, _)
define_local_names(g, var, names) ==
    IF names = <<>> THEN g
    ELSE define_local_names(define_method_var(g, Head(names), var.type_, "local"),
                            var, Tail(names))

RECURSIVE define_local_vars(_, _)
define_local_vars(g, local_vars) ==
    IF local_vars = <<>> THEN g
    ELSE define_local_vars(define_local_names(g, Head(local_vars), Head(local_vars).names),
                           Tail(local_vars))

RECURSIVE write_zeros(_, _)
write_zeros(g, n) ==
    IF n <= 0 THEN g ELSE write_zeros(write_push(g, <<"c", "o", "n", "s", "t", "a", "n", "t">>, 0), n - 1)

RECURSIVE write_append_chars(_, _)
write_append_chars(g, s) ==
    IF s = <<>> THEN g
    ELSE write_append_chars(write_call(write_push(g, <<"c", "o", "n", "s", "t", "a", "n", "t">>, CharCode(Head(s))),
                                       <<"S", "t", "r", "i", "n", "g", ".", "a", "p", "p", "e", "n", "d", "C", "h", "a", "r">>, 2),
                            Tail(s))

\* impl VmWrite for SubroutineBody, the loop over the local variables
RECURSIVE write_string_locals(_, _)
write_string_locals(g, vs) ==
    IF vs = <<>> THEN g
    ELSE write_string_locals(
            IF IsStringLocal(Head(vs))
            THEN LET g1 == write_push(g, <<"c", "o", "n", "s", "t", "a", "n", "t">>, Len(Head(vs).name))
                     g2 == write_call(g1, <<"S", "t", "r", "i", "n", "g", ".", "n", "e", "w">>, 1)
                     g3 == write_append_chars(g2, Head(vs).name)
                 IN  write_pop(g3, <<"l", "o", "c", "a", "l">>, Head(vs).index)
            ELSE g,
            Tail(vs))

\* the count written on the function line
function_count(g) == param_count(g)

\* impl VmWrite for SubroutineBody, up to the statements
write_subroutine_body(g, body) ==
    LET g1 == define_local_vars(g, body.local_vars)
        g2 == write_function(g1, current_function(g1), function_count(g1))
        g3 == write_zeros(g2, local_var_count(g2))
        g4 == CASE g3.method_kind = "method" ->
                       write_pop(write_push(g3, <<"a", "r", "g", "u", "m", "e", "n", "t">>, 0), <<"p", "o", "i", "n", "t", "e", "r">>, 0)
                [] g3.method_kind = "constructor" ->
                       write_pop(write_call(write_push(g3, <<"c", "o", "n", "s", "t", "a", "n", "t">>, object_fields_count(g3)),
                                            <<"M", "e", "m", "o", "r", "y", ".", "a", "l", "l", "o", "c">>, 1),
                                 <<"p", "o", "i", "n", "t", "e", "r">>, 0)
                [] OTHER -> g3
    IN  write_string_locals(g4, local_variables(g4))

\* impl VmWrite for SubroutineDec, up to the statements of the body
write_subroutine_dec(g, sub) ==
    LET g1 == start_subroutine(g, sub.name, sub.kind)
        g2 == IF sub.kind = "method"
              THEN define_method_var(g1, <<"t", "h", "i", "s">>, ClassType(g1.class_name), "argument")
              ELSE g1
    IN  write_subroutine_body(define_params(g2, sub.params), sub.body)

\* ---- the classes compiled ----

MaxParams == 2      \* parameters of the subroutine
MaxVars == 2        \* local variables of the subroutine

\* class Point of the specification
PointClass ==
    Class(<<"P", "o", "i", "n", "t">>,
          << ClassVarDec("field", IntType, << <<"x">>, <<"y">> >>) >>,
          << SubroutineDec("constructor", <<"n", "e", "w">>,
                 << Param(IntType, <<"a", "x">>), Param(IntType, <<"a", "y">>) >>,
                 SubroutineBody(<<>>,
                     << LetStatement(<<"x">>, NoExpr, E1(VarName(<<"a", "x">>))),
                        LetStatement(<<"y">>, NoExpr, E1(VarName(<<"a", "y">>))),
                        ReturnStatement(E1(KeywordConst("this"))) >>)) >>)

X == E1(VarName(<<"x">>))

\* the statements of the subroutine run
Statements ==
    { LetStatement(<<"x">>, NoExpr, Expr(VarName(<<"s", "0">>), << OpTerm("+", IntegerConst(1)) >>)),
      LetStatement(<<"v", "0">>, NoExpr, X),
      LetStatement(<<"a", "r", "r">>, X, E1(VarName(<<"y">>))),
      LetStatement(<<"a", "r", "r">>, E1(ArrayTerm(<<"a", "r", "r">>, E1(IntegerConst(0)))),
                   E1(ArrayTerm(<<"a", "r", "r">>, E1(IntegerConst(1))))),
      LetStatement(<<"y">>, NoExpr,
                   Expr(UnaryTerm("-", ParenTerm(Expr(VarName(<<"x">>),
                                                      << OpTerm("*", IntegerConst(2)) >>))),
                        << OpTerm("&", KeywordConst("true")) >>)),
      LetStatement(<<"s", "0">>, NoExpr, E1(StringConst(<<"H", "i">>))),
      LetStatement(<<"x">>, NoExpr, E1(ArrayTerm(<<"a", "r", "r">>, E1(IntegerConst(1))))),
      DoStatement(InternalCall(<<"d", "r", "a", "w">>, <<>>)),
      DoStatement(InternalCall(<<"m", "o", "v", "e">>, << X, E1(IntegerConst(2)) >>)),
      DoStatement(ExternalCall(<<"p", "e", "e", "r">>, <<"t", "o", "u", "c", "h">>, << X >>)),
      DoStatement(ExternalCall(<<"p", "1">>, <<"t", "o", "u", "c", "h">>, <<>>)),
      DoStatement(ExternalCall(<<"O", "u", "t", "p", "u", "t">>, <<"p", "r", "i", "n", "t", "I", "n", "t">>, << E1(IntegerConst(7)) >>)),
      DoStatement(ExternalCall(<<"O", "u", "t", "p", "u", "t">>, <<"p", "r", "i", "n", "t", "S", "t", "r", "i", "n", "g">>, << E1(StringConst(<<"H", "i">>)) >>)),
      DoStatement(ExternalCall(<<"x">>, <<"t", "o", "u", "c", "h">>, <<>>)),
      WhileStatement(X, << DoStatement(InternalCall(<<"d", "r", "a", "w">>, <<>>)) >>),
      IfStatement(X, << LetStatement(<<"y">>, NoExpr, E1(IntegerConst(1))) >>,
                  Else(<< LetStatement(<<"y">>, NoExpr, E1(IntegerConst(2))) >>)),
      IfStatement(X, << WhileStatement(X, <<>>) >>, NoElse),
      ReturnStatement(X) }

\* the parameters p0, p1, ... and the local variables v0, v1, ...: p1 is of
\* class Other, v1 a String, the others are int
Params(np) ==
    [i \in 1..np |-> Param(IF i = 2 THEN ClassType(<<"O", "t", "h", "e", "r">>) ELSE IntType, <<"p">> \o ToDec(i - 1))]
LocalVars(nv) ==
    [i \in 1..nv |-> VarDec(IF i = 2 THEN ClassType(<<"S", "t", "r", "i", "n", "g">>) ELSE IntType,
                            << <<"v">> \o ToDec(i - 1) >>)]

\* class Main with one subroutine run of np parameters, nv local variables and
\* the statement st, and the function aux
MainClass(kind, np, nv, st) ==
    Class(<<"M", "a", "i", "n">>,
          << ClassVarDec("static", IntType, << <<"s", "0">> >>),
             ClassVarDec("field", IntType, << <<"x">>, <<"y">> >>),
             ClassVarDec("field", ClassType(<<"O", "t", "h", "e", "r">>), << <<"p", "e", "e", "r">> >>),
             ClassVarDec("field", ClassType(<<"A", "r", "r", "a", "y">>), << <<"a", "r", "r">> >>) >>,
          << SubroutineDec(kind, <<"r", "u", "n">>, Params(np),
                           SubroutineBody(LocalVars(nv),
                                          << st, ReturnStatement(NoExpr) >>)),
             SubroutineDec("function", <<"a", "u", "x">>, <<>>,
                           SubroutineBody(<<>>, << ReturnStatement(NoExpr) >>)) >>)

GenClasses ==
    {PointClass}
    \cup { MainClass(kind, np, nv, st) :
              kind \in {"function", "method", "constructor"},
              np \in 0..MaxParams, nv \in 0..MaxVars, st \in Statements }

\* the orders in which a HashMap of up to three local variables is iterated
Orders == { <<0, 1, 2>>, <<2, 1, 0>> }

\* ---- VmWriter ----

NoNode == [s |-> "none"]

\* VmWriter::new
GenStart(classes) ==
    /\ ast \in classes
    /\ \E order \in Orders : context = NewContext(ast.name, order)
    /\ vm_output = <<>>
    /\ gen_pc = [st |-> "class", sub |-> 0, stmt |-> 0]
    /\ gen_log = [node |-> NoNode, sub |-> 0, before |-> context, from |-> 0]

GenInit == GenStart(GenClasses) /\ AsmIdle /\ VmtIdle /\ TokIdle /\ ParIdle

\* the position after statement stmt of subroutine sub
NextPosition(sub, stmt) ==
    IF stmt < Len(ast.subroutines[sub].body.body)
    THEN [st |-> "body", sub |-> sub, stmt |-> stmt + 1]
    ELSE IF sub < Len(ast.subroutines)
    THEN [st |-> "subroutine", sub |-> sub + 1, stmt |-> 0]
    ELSE [st |-> "done", sub |-> sub, stmt |-> stmt]

\* impl VmWrite for Class: the class variables
DefineClassVars ==
    /\ gen_pc.st = "class"
    /\ context' = ContextOf(define_class_vars(Gen(context, vm_output), ast.vars))
    /\ gen_pc' = IF ast.subroutines = <<>> THEN [gen_pc EXCEPT !.st = "done"]
                 ELSE [st |-> "subroutine", sub |-> 1, stmt |-> 0]
    /\ UNCHANGED <<ast, vm_output, gen_log>>
    /\ UNCHANGED <<asm_vars, vmt_vars, tok_vars, par_vars>>

\* impl VmWrite for SubroutineDec and SubroutineBody, up to the statements
WriteSubroutineDec ==
    /\ gen_pc.st = "subroutine"
    /\ LET g == write_subroutine_dec(Gen(context, vm_output), ast.subroutines[gen_pc.sub])
       IN  /\ context' = ContextOf(g)
           /\ vm_output' = g.out
    /\ gen_pc' = NextPosition(gen_pc.sub, 0)
    /\ gen_log' = [node |-> [s |-> "dec"], sub |-> gen_pc.sub, before |-> context,
                   from |-> Len(vm_output)]
    /\ UNCHANGED ast
    /\ UNCHANGED <<asm_vars, vmt_vars, tok_vars, par_vars>>

\* impl VmWrite for Statement: one statement of the body
WriteStatement ==
    /\ gen_pc.st = "body"
    /\ LET st == ast.subroutines[gen_pc.sub].body.body[gen_pc.stmt]
           g == write_statement(Gen(context, vm_output), st)
       IN  IF g.panic
           THEN /\ gen_pc' = [gen_pc EXCEPT !.st = "panic"]
                /\ UNCHANGED <<context, vm_output, gen_log>>
           ELSE /\ context' = ContextOf(g)
                /\ vm_output' = g.out
                /\ gen_pc' = NextPosition(gen_pc.sub, gen_pc.stmt)
                /\ gen_log' = [node |-> st, sub |-> gen_pc.sub, before |-> context,
                               from |-> Len(vm_output)]
    /\ UNCHANGED ast
    /\ UNCHANGED <<asm_vars, vmt_vars, tok_vars, par_vars>>

\* VmWriter::save_file
SaveFile ==
    /\ gen_pc.st = "done"
    /\ gen_pc' = [gen_pc EXCEPT !.st = "saved"]
    /\ UNCHANGED <<ast, context, vm_output, gen_log>>
    /\ UNCHANGED <<asm_vars, vmt_vars, tok_vars, par_vars>>

GenNext == DefineClassVars \/ WriteSubroutineDec \/ WriteStatement \/ SaveFile

SpecGen == GenInit /\ [][GenNext]_vars

\* ---- what the generator wrote last ----

\* the lines written for the node written last
Emitted == SubSeq(vm_output, gen_log.from + 1, Len(vm_output))
\* all of them but the last
Front(s) == SubSeq(s, 1, Len(s) - 1)
Last(s) == s[Len(s)]

\* the node written last is a statement of kind s
Wrote(s) == gen_log.node.s = s

\* the generator as it was before that node, with nothing written
Before == Gen(gen_log.before, <<>>)

\* the code of an expression and of a list of arguments
CodeOf(e) == write_expr(Before, e).out
CodeOfArgs(args) == write_args(Before, args).out

Line3(word, a, b) == word \o <<" ">> \o a \o <<" ">> \o b

\* s is somewhere in t
Within(s, t) == \E i \in 0..(Len(t) - Len(s)) : SubSeq(t, i + 1, i + Len(s)) = s

\* C3: let x = e with x declared writes the code of e and then
\* pop <segment of x> <index of x>; every store is written with the word pop:
\* the two stores of an array assignment (pop pointer 1, pop that 0), the
\* discard of a do statement (pop temp 0) and the binding of this in a method
\* and in a constructor (pop pointer 0).
C3_StoresArePops ==
    /\ (Wrote("let") /\ gen_log.node.array_index = NoExpr) =>
          LET x == ctx_get(Before, gen_log.node.var_name)
          IN  Emitted = CodeOf(gen_log.node.right_expr)
                        \o << Line3(<<"p", "o", "p">>, SegmentOf(x.kind), ToDec(x.index)) >>
    /\ (Wrote("let") /\ gen_log.node.array_index # NoExpr) =>
          /\ Len(Emitted) >= 2
          /\ SubSeq(Emitted, Len(Emitted) - 1, Len(Emitted)) = << <<"p", "o", "p", " ", "p", "o", "i", "n", "t", "e", "r", " ", "1">>, <<"p", "o", "p", " ", "t", "h", "a", "t", " ", "0">> >>
    /\ Wrote("do") => Last(Emitted) = <<"p", "o", "p", " ", "t", "e", "m", "p", " ", "0">>
    /\ (Wrote("dec") /\ ast.subroutines[gen_log.sub].kind = "method") =>
          Within(<< <<"p", "u", "s", "h", " ", "a", "r", "g", "u", "m", "e", "n", "t", " ", "0">>, <<"p", "o", "p", " ", "p", "o", "i", "n", "t", "e", "r", " ", "0">> >>, Emitted)
    /\ (Wrote("dec") /\ ast.subroutines[gen_log.sub].kind = "constructor") =>
          Within(<< <<"c", "a", "l", "l", " ", "M", "e", "m", "o", "r", "y", ".", "a", "l", "l", "o", "c", " ", "1">>, <<"p", "o", "p", " ", "p", "o", "i", "n", "t", "e", "r", " ", "0">> >>, Emitted)

\* the number of local variables declared with var in subroutine sub
RECURSIVE NamesIn(_)
NamesIn(decs) == IF decs = <<>> THEN 0 ELSE Len(Head(decs).names) + NamesIn(Tail(decs))
DeclaredLocals(sub) == NamesIn(sub.body.local_vars)

\* C5: the function line of every subroutine is
\* function <ClassName>.<name> <k> with k the number of local variables declared
\* with var, whatever the number of parameters; the constructor of class Point
\* (two parameters, no locals) gets function Point.new 0.
C5_FunctionLineCountsLocals ==
    Wrote("dec") =>
        LET sub == ast.subroutines[gen_log.sub]
        IN  /\ Emitted[1] = Line3(<<"f", "u", "n", "c", "t", "i", "o", "n">>, ast.name \o <<".">> \o sub.name,
                                  ToDec(DeclaredLocals(sub)))
            /\ ast = PointClass => Emitted[1] = <<"f", "u", "n", "c", "t", "i", "o", "n", " ", "P", "o", "i", "n", "t", ".", "n", "e", "w", " ", "0">>

\* C6: do f(a1..an) on the current object writes push pointer 0, the code of
\* the n arguments in order and call <ClassName>.f <n+1>.
C6_InternalCallCountsThis ==
    (Wrote("do") /\ gen_log.node.subroutine_call.c = "internal") =>
        LET call == gen_log.node.subroutine_call
        IN  Front(Emitted) =
                << <<"p", "u", "s", "h", " ", "p", "o", "i", "n", "t", "e", "r", " ", "0">> >> \o CodeOfArgs(call.args)
                \o << Line3(<<"c", "a", "l", "l">>, ast.name \o <<".">> \o call.name, ToDec(Len(call.args) + 1)) >>

\* the call of the do statement written last is a call R.m with R a variable
\* of a class type
MethodCallOnVariable ==
    /\ Wrote("do")
    /\ gen_log.node.subroutine_call.c = "external"
    /\ ctx_find(Before, gen_log.node.subroutine_call.name)
    /\ ctx_get(Before, gen_log.node.subroutine_call.name).type_.ty = "class"

\* C7: do R.m(a1..an) with R a variable of class T writes
\* push <segment of R> <index of R>, the code of the n arguments and
\* call T.m <n+1>.
C7_MethodCallOnVariable ==
    MethodCallOnVariable =>
        LET call == gen_log.node.subroutine_call
            R == ctx_get(Before, call.name)
        IN  Front(Emitted) =
                << Line3(<<"p", "u", "s", "h">>, SegmentOf(R.kind), ToDec(R.index)) >>
                \o CodeOfArgs(call.args)
                \o << Line3(<<"c", "a", "l", "l">>, R.type_.class \o <<".">> \o call.subroutine_name,
                            ToDec(Len(call.args) + 1)) >>

\* push constant |s|, call String.new 1 and for each character c of s
\* push constant <code(c)>, call String.appendChar 2
RECURSIVE AppendChars(_)
AppendChars(s) ==
    IF s = <<>> THEN <<>>
    ELSE << <<"p", "u", "s", "h", " ", "c", "o", "n", "s", "t", "a", "n", "t", " ">> \o ToDec(CharCode(Head(s))), <<"c", "a", "l", "l", " ", "S", "t", "r", "i", "n", "g", ".", "a", "p", "p", "e", "n", "d", "C", "h", "a", "r", " ", "2">> >>
         \o AppendChars(Tail(s))
StringCode(s) == << <<"p", "u", "s", "h", " ", "c", "o", "n", "s", "t", "a", "n", "t", " ">> \o ToDec(Len(s)), <<"c", "a", "l", "l", " ", "S", "t", "r", "i", "n", "g", ".", "n", "e", "w", " ", "1">> >> \o AppendChars(s)

\* the statement written last is let x = "s"
LetOfString ==
    /\ Wrote("let")
    /\ gen_log.node.array_index = NoExpr
    /\ gen_log.node.right_expr.op_terms = <<>>
    /\ gen_log.node.right_expr.term.t = "str"

\* C8: a string constant s is written, where the term stands, as
\* push constant |s|, call String.new 1 and for each character c of s in order
\* push constant <code(c)>, call String.appendChar 2: in let x = "s" these are
\* the lines before the store.
C8_StringConstantBuiltAtTerm ==
    LetOfString => Front(Emitted) = StringCode(gen_log.node.right_expr.term.v)

-----------------------------------------------------------------------------
(* a while statement, compiled, translated and run *)

\* the values passed as the argument c: the booleans of Jack, false (0) and
\* true (-1, all bits set)
WhileValues == {0, -1}

\* the conditions of the loop: the argument c, true, false
WhileConds == { E1(VarName(<<"c">>)), E1(KeywordConst("true")), E1(KeywordConst("false")) }

\* class Main { function int f(int c) { while (cond) { return 1; } return 0; } }
WhileClass(cond) ==
    Class(<<"M", "a", "i", "n">>, <<>>,
          << SubroutineDec("function", <<"f">>, << Param(IntType, <<"c">>) >>,
                 SubroutineBody(<<>>,
                     << WhileStatement(cond, << ReturnStatement(E1(IntegerConst(1))) >>),
                        ReturnStatement(E1(IntegerConst(0))) >>)) >>)

\* Sys.vm: Sys.init calls Main.f with the argument v and stops at END
SysVm(v) ==
    [ name |-> <<"S", "y", "s">>,
      lines |-> << <<"f", "u", "n", "c", "t", "i", "o", "n", " ", "S", "y", "s", ".", "i", "n", "i", "t", " ", "0">> >> \o PushValue(v)
                \o << <<"c", "a", "l", "l", " ", "M", "a", "i", "n", ".", "f", " ", "1">>, <<"l", "a", "b", "e", "l", " ", "E", "N", "D">>, <<"g", "o", "t", "o", " ", "E", "N", "D">> >> ]

WhileInit ==
    /\ GenStart({WhileClass(cond) : cond \in WhileConds})
    /\ \E v \in WhileValues :
          vm_in = [ multi_files |-> TRUE, files |-> <<>>, c |-> v,
                    cond |-> ast.subroutines[1].body.body[1].cond ]
    /\ asm_out = <<>>
    /\ rom = <<>>
    /\ cpu = [CpuReset EXCEPT !.st = "compile"]
    /\ ram = <<>>
    /\ snap = NoCalls
    /\ AsmIdle /\ TokIdle /\ ParIdle

\* VmTranslator::new for a directory: the .vm files in the order read_dir
\* gives them
VmTranslatorNew ==
    /\ gen_pc.st = "saved"
    /\ cpu.st = "compile"
    /\ LET sys == SysVm(vm_in.c)
           main == [name |-> ast.name, lines |-> vm_output]
       IN  \E files \in { <<sys, main>>, <<main, sys>> } :
              vm_in' = [vm_in EXCEPT !.files = files]
    /\ cpu' = [cpu EXCEPT !.st = "translate"]
    /\ UNCHANGED <<asm_out, rom, ram, snap>>
    /\ UNCHANGED <<asm_vars, gen_vars, tok_vars, par_vars>>

WhileNext == GenNext \/ VmTranslatorNew \/ VmtNext

SpecWhile == WhileInit /\ [][WhileNext]_vars

\* the condition of the loop is true (non-zero) when the argument is c
CondTrue ==
    CASE vm_in.cond.term.t = "var" -> vm_in.c # 0
      [] OTHER -> vm_in.cond.term.k = "true"

\* Main.f has returned to Sys.init
AtEnd == cpu.st = "run" /\ cpu.pc = rom.labels[<<"S", "y", "s", ".", "i", "n", "i", "t">> \o <<"$">> \o <<"E", "N", "D">>]

\* the value on top of the stack
StackTop == Rd(ram, Rd(ram, 0) - 1)

\* C4: while (cond) { body } executes body when cond is true (non-zero) and
\* leaves the loop when cond is false (zero): f, whose loop body is return 1
\* and which returns 0 after the loop, returns 1 when cond is true and 0 when
\* it is false.
C4_WhileRunsBodyWhileTrue ==
    AtEnd => StackTop = IF CondTrue THEN 1 ELSE 0

-----------------------------------------------------------------------------
(* the assembler: labels and variables *)

MaxSymLen == 4      \* lines of a program with symbols

LOOP == LInstr(<<"L", "O", "O", "P">>)
END == LInstr(<<"E", "N", "D">>)

SymItems ==
    { AInstr(<<"L", "O", "O", "P">>, -1), LOOP, AInstr(<<"E", "N", "D">>, -1), END,
      AInstr(<<"i">>, -1), AInstr(<<"j">>, -1), AInstr(<<"s", "u", "m">>, -1),
      AInstr(<<"5">>, 5), AInstr(<<"S", "P">>, -1),
      CInstr(<<"M">>, <<"1">>, None), CInstr(None, <<"0">>, <<"J", "M", "P">>) }

\* the variable-allocation scenario of the specification
LoopProgram ==
    << AInstr(<<"L", "O", "O", "P">>, -1), LOOP, AInstr(<<"i">>, -1), CInstr(<<"M">>, <<"1">>, None),
       AInstr(<<"L", "O", "O", "P">>, -1), CInstr(None, <<"0">>, <<"J", "M", "P">>) >>

\* the positions at which the program defines the label sym
LabelDefs(prog, sym) == {p \in 1..Len(prog) : prog[p].k = "L" /\ prog[p].sym = sym}

\* no label is defined twice
LabelsOnce(prog) ==
    \A p \in 1..Len(prog) : prog[p].k = "L" => LabelDefs(prog, prog[p].sym) = {p}

SymPrograms ==
    {LoopProgram}
    \cup { prog \in UNION { [1..n -> SymItems] : n \in 1..MaxSymLen } : LabelsOnce(prog) }

SymInit == AsmStart(SymPrograms)

SpecSym == SymInit /\ [][AsmNext]_vars

\* the number of A- and C-instructions before position p of the program
InstructionsBefore(p) == Cardinality({q \in 1..(p - 1) : asm_src[q].k # "L"})

\* the position in the program of its i-th instruction
PositionOf(i) ==
    CHOOSE p \in 1..Len(asm_src) : asm_src[p].k # "L" /\ InstructionsBefore(p) = i - 1

IsLabel(sym) == LabelDefs(asm_src, sym) # {}
LabelValue(sym) == InstructionsBefore(CHOOSE p \in LabelDefs(asm_src, sym) : TRUE)

\* the line of 16 characters for the address n
AddressLine(n) == <<"0">> \o Bits15(n)

PassOneDone == asm_pc \in {"pass2", "done"}

\* pass 2 is about to handle @NAME with NAME a label
AtLabelUse ==
    /\ asm_pc = "pass2" /\ cursor < Len(codes)
    /\ Instructions[cursor + 1].k = "A" /\ IsLabel(Instructions[cursor + 1].sym)

\* C11 (state part): after pass 1 each label has the number of instructions
\* before it, and every line pass 2 has written for an @NAME of a label is that
\* number, whether the use is before or after the definition.
LabelsResolved ==
    PassOneDone =>
        /\ \A p \in 1..Len(asm_src) :
              asm_src[p].k = "L" => /\ asm_src[p].sym \in DOMAIN symbol_table
                                    /\ symbol_table[asm_src[p].sym] = InstructionsBefore(p)
        /\ \A i \in 1..Len(output) :
              (Instructions[i].k = "A" /\ IsLabel(Instructions[i].sym)) =>
                  output[i] = AddressLine(LabelValue(Instructions[i].sym))

\* C11 (step part): handling @NAME of a label allocates no variable address
LabelUseAllocatesNothing ==
    AtLabelUse => /\ alloc_address' = alloc_address
                  /\ symbol_table' = symbol_table

\* C11: after pass 1 every label (NAME) maps to the number of A- and
\* C-instructions before it, and pass 2 writes every @NAME, before or after the
\* definition, with that value and allocates no variable for it.
C11_LabelsResolveToInstructionIndex ==
    /\ []LabelsResolved
    /\ [][LabelUseAllocatesNothing]_vars

\* a label used before its definition, after two instructions, has been written
C11_Witness ==
    /\ asm_pc = "done"
    /\ \E i \in 1..Len(output) :
          /\ Instructions[i].k = "A" /\ IsLabel(Instructions[i].sym)
          /\ PositionOf(i) < CHOOSE p \in LabelDefs(asm_src, Instructions[i].sym) : TRUE
          /\ LabelValue(Instructions[i].sym) = 2
          /\ output[i] = AddressLine(2)

\* C12: for the program @LOOP, (LOOP), @i, M=1, @LOOP, 0;JMP the assembler
\* resolves LOOP to 0 and i to 16: both @LOOP lines are 0000000000000000 and
\* the @i line is 0000000000010000.
C12_LoopScenario ==
    (asm_src = LoopProgram /\ asm_pc = "done") =>
        /\ symbol_table[<<"L", "O", "O", "P">>] = 0
        /\ symbol_table[<<"i">>] = 16
        /\ output[1] = <<"0", "0", "0", "0", "0", "0", "0", "0", "0", "0", "0", "0", "0", "0", "0", "0">>
        /\ output[2] = <<"0", "0", "0", "0", "0", "0", "0", "0", "0", "0", "0", "1", "0", "0", "0", "0">>
        /\ output[4] = <<"0", "0", "0", "0", "0", "0", "0", "0", "0", "0", "0", "0", "0", "0", "0", "0">>

\* C12, amended: for the program @LOOP, (LOOP), @i, M=1, @LOOP, 0;JMP the
\* assembler resolves LOOP to 1, the number of instructions before (LOOP), and
\* i to 16: both @LOOP lines are 0000000000000001 and the @i line is
\* 0000000000010000.
C12_LoopScenarioLabelIsOne ==
    (asm_src = LoopProgram /\ asm_pc = "done") =>
        /\ symbol_table[<<"L", "O", "O", "P">>] = 1
        /\ symbol_table[<<"i">>] = 16
        /\ output[1] = <<"0", "0", "0", "0", "0", "0", "0", "0", "0", "0", "0", "0", "0", "0", "0", "1">>
        /\ output[2] = <<"0", "0", "0", "0", "0", "0", "0", "0", "0", "0", "0", "1", "0", "0", "0", "0">>
        /\ output[4] = <<"0", "0", "0", "0", "0", "0", "0", "0", "0", "0", "0", "0", "0", "0", "0", "1">>

\* the scenario has been assembled to five lines
C12_Witness == asm_src = LoopProgram /\ asm_pc = "done" /\ Len(output) = 5

\* the i-th instruction is @NAME with NAME neither a literal, a predefined
\* symbol nor a label
IsVariableUse(i) ==
    /\ Instructions[i].k = "A"
    /\ Instructions[i].num < 0
    /\ Instructions[i].sym \notin DOMAIN InitSymbolTable
    /\ ~IsLabel(Instructions[i].sym)

\* the instructions among the first n that use a variable for the first time
FirstUses(n) ==
    {i \in 1..n : /\ IsVariableUse(i)
                  /\ \A h \in 1..(i - 1) : Instructions[h].sym # Instructions[i].sym}

\* the number k of the variable used by instruction i: the variables first
\* used before its own first use
VariableNumber(i) ==
    LET first == CHOOSE h \in FirstUses(i) : Instructions[h].sym = Instructions[i].sym
    IN  Cardinality(FirstUses(first - 1))

\* C13: the k-th distinct variable (k = 0, 1, ...) in order of first occurrence
\* gets address 16 + k, every @ of it writes that address, the counter advances
\* only on a first occurrence, and no two variables share an address.
C13_VariablesFromSixteen ==
    PassOneDone =>
        /\ alloc_address = 16 + Cardinality(FirstUses(Len(output)))
        /\ \A i \in 1..Len(output) :
              IsVariableUse(i) =>
                  /\ symbol_table[Instructions[i].sym] = 16 + VariableNumber(i)
                  /\ output[i] = AddressLine(16 + VariableNumber(i))
        /\ \A i, h \in 1..Len(output) :
              (IsVariableUse(i) /\ IsVariableUse(h)
               /\ Instructions[i].sym # Instructions[h].sym) =>
                  symbol_table[Instructions[i].sym] # symbol_table[Instructions[h].sym]

\* three variables, the first of them used again after the second
C13_Witness ==
    /\ asm_pc = "done"
    /\ Len(output) = 4
    /\ Cardinality(FirstUses(4)) = 3
    /\ \E i \in 3..4 : IsVariableUse(i) /\ VariableNumber(i) = 0
    /\ alloc_address = 19

-----------------------------------------------------------------------------
(* a directory with Sys.vm alone, translated with the bootstrap and run *)

\* Sys.vm of the VM function/call scenario of the specification
SysInit42 ==
    [ name |-> <<"S", "y", "s">>,
      lines |-> << <<"f", "u", "n", "c", "t", "i", "o", "n", " ", "S", "y", "s", ".", "i", "n", "i", "t", " ", "0">>, <<"p", "u", "s", "h", " ", "c", "o", "n", "s", "t", "a", "n", "t", " ", "4", "2">>, <<"r", "e", "t", "u", "r", "n">> >> ]

\* the ROM holding the program asm
RomOf(asm) ==
    [ code |-> HackLoad(asm).code, labels |-> HackLoad(asm).labels,
      calls |-> CallStarts(asm), returns |-> ReturnJumps(asm) ]

\* the directory has been translated (VmTranslator::run) and the program
\* placed in the ROM
BootInit ==
    /\ vm_in = [multi_files |-> TRUE, files |-> << SysInit42 >>]
    /\ asm_out = run(vm_in.files, vm_in.multi_files).output
    /\ rom = RomOf(asm_out)
    /\ cpu = [CpuReset EXCEPT !.st = "run"]
    /\ ram = <<>>
    /\ snap = NoCalls
    /\ AsmIdle /\ GenIdle /\ TokIdle /\ ParIdle

\* the CPU executes an instruction whenever there is one at pc
SpecBoot == BootInit /\ [][CpuStep]_vars /\ WF_vars(CpuStep)

\* Sys.init has left 42 in RAM[256] and SP at 257
Returned42 == cpu.st = "run" /\ Rd(ram, 256) = 42 /\ Rd(ram, 0) = 257

\* C14: for the directory whose only file Sys.vm is function Sys.init 0,
\* push constant 42, return, the emitted program eventually reaches, and from
\* then on stays in, a state with RAM[256] = 42 and SP = 257.
C14_BootstrapEndsWith42 == <>[]Returned42

-----------------------------------------------------------------------------
(* the labels generated within one run of the translator *)

MaxVmFiles == 2     \* .vm files of the directory
MaxVmLen == 2       \* commands of a .vm file

LabelCommands == { <<"e", "q">>, <<"l", "t">>, <<"c", "a", "l", "l", " ", "L", "i", "b", ".", "f", " ", "0">> }

VmTexts == UNION { [1..n -> LabelCommands] : n \in 1..MaxVmLen }

\* the files F1.vm, F2.vm, ... with the given texts
VmFiles(texts) == [i \in 1..Len(texts) |-> [name |-> <<"F">> \o ToDec(i), lines |-> texts[i]]]

LabelsInit ==
    /\ \E n \in 1..MaxVmFiles : \E texts \in [1..n -> VmTexts] :
          vm_in = [multi_files |-> TRUE, files |-> VmFiles(texts)]
    /\ asm_out = <<>>
    /\ rom = <<>>
    /\ cpu = CpuReset
    /\ ram = <<>>
    /\ snap = NoCalls
    /\ AsmIdle /\ GenIdle /\ TokIdle /\ ParIdle

\* the directory is translated; the program is not run
SpecLabels == LabelsInit /\ [][VmRun]_vars

Translated == cpu.st = "load"

\* the commands of all files, in the order translated
RECURSIVE AllCommands(_)
AllCommands(files) ==
    IF files = <<>> THEN <<>> ELSE Head(files).lines \o AllCommands(Tail(files))

IsComparison(command) == command \in { <<"e", "q">>, <<"g", "t">>, <<"l", "t">> }
IsCall(command) == Len(command) > 5 /\ SubSeq(command, 1, 5) = <<"c", "a", "l", "l", " ">>

\* the lines of the output that define a generated label: (<op>_<i>) for a
\* comparison, (End$<f>$<j>) for a return address
IsComparisonLabel(line) ==
    Len(line) > 4 /\ SubSeq(line, 1, 4) \in { <<"(", "e", "q", "_">>, <<"(", "g", "t", "_">>, <<"(", "l", "t", "_">> }
IsReturnLabelDef(line) == Len(line) > 5 /\ SubSeq(line, 1, 5) = <<"(", "E", "n", "d">> \o <<"$">>

ComparisonLabels == SelectSeq(asm_out, IsComparisonLabel)
ReturnLabels == SelectSeq(asm_out, IsReturnLabelDef)

Distinct(s) == \A i, j \in 1..Len(s) : i # j => s[i] # s[j]

\* C15: within one run over any number of .vm files the labels generated for
\* comparison commands are pairwise distinct, one for each comparison, and the
\* labels generated for call return addresses are pairwise distinct, one for
\* each call: the counters go on from file to file.
C15_GeneratedLabelsDistinct ==
    Translated =>
        /\ Len(ComparisonLabels) = Len(SelectSeq(AllCommands(vm_in.files), IsComparison))
        /\ Len(ReturnLabels) = Len(SelectSeq(AllCommands(vm_in.files), IsCall))
        /\ Distinct(ComparisonLabels)
        /\ Distinct(ReturnLabels)

\* two files, each with the same comparison and the same call, are translated
C15_Witness ==
    /\ Translated
    /\ Len(vm_in.files) = 2
    /\ vm_in.files[1].lines = << <<"e", "q">>, <<"c", "a", "l", "l", " ", "L", "i", "b", ".", "f", " ", "0">> >>
    /\ vm_in.files[2].lines = << <<"e", "q">>, <<"c", "a", "l", "l", " ", "L", "i", "b", ".", "f", " ", "0">> >>
    /\ Len(ComparisonLabels) = 2 /\ Len(ReturnLabels) = 2

-----------------------------------------------------------------------------
(* pop to a segment, push from it *)

MaxIndex == 2       \* largest index of a segment cell

Segments == { <<"l", "o", "c", "a", "l">>, <<"a", "r", "g", "u", "m", "e", "n", "t">>, <<"t", "h", "i", "s">>, <<"t", "h", "a", "t">>, <<"t", "e", "m", "p">>, <<"p", "o", "i", "n", "t", "e", "r">>, <<"s", "t", "a", "t", "i", "c">> }

SegValues == {0, 5, 77, -1}

\* pointer has the cells 0 and 1
SegIndexes(seg) == IF seg = <<"p", "o", "i", "n", "t", "e", "r">> THEN 0..Min(MaxIndex, 1) ELSE 0..MaxIndex

\* the VM file Seg.vm: v is pushed and popped to the cell; with between, another
\* value then overwrites the stack cell v was in; the cell is pushed
SegProgram(seg, i, v, between) ==
    PushValue(v) \o << <<"p", "o", "p", " ">> \o seg \o <<" ">> \o ToDec(i) >>
      \o (IF between THEN << <<"p", "u", "s", "h", " ", "c", "o", "n", "s", "t", "a", "n", "t", " ", "9">> >> ELSE <<>>)
      \o << <<"p", "u", "s", "h", " ">> \o seg \o <<" ">> \o ToDec(i) >>

\* SP = 256, LCL = 300, ARG = 310, THIS = 320, THAT = 330
SegRam == (0 :> 256) @@ (1 :> 300) @@ (2 :> 310) @@ (3 :> 320) @@ (4 :> 330)

SegInit ==
    /\ \E seg \in Segments : \E i \in SegIndexes(seg) : \E v \in SegValues :
       \E between \in BOOLEAN :
          vm_in = [ seg |-> seg, i |-> i, v |-> v, between |-> between,
                    multi_files |-> FALSE,
                    files |-> << [ name |-> <<"S", "e", "g">>,
                                   lines |-> SegProgram(seg, i, v, between) ] >> ]
    /\ asm_out = <<>>
    /\ rom = <<>>
    /\ cpu = CpuReset
    /\ ram = SegRam
    /\ snap = NoCalls
    /\ AsmIdle /\ GenIdle /\ TokIdle /\ ParIdle

SpecSeg == SegInit /\ [][VmtNext]_vars

\* the address of the first instruction after the pop
PopEnd ==
    LET out == run(<< [ name |-> <<"S", "e", "g">>,
                        lines |-> PushValue(vm_in.v)
                                    \o << <<"p", "o", "p", " ">> \o vm_in.seg \o <<" ">> \o ToDec(vm_in.i) >> ] >>,
                   FALSE).output
    IN  HackAddress(out, Len(out) + 1)

AfterPop == cpu.st = "run" /\ cpu.pc = PopEnd

\* the cell the segment mapping designates: RAM[*base + i], RAM[5 + i],
\* RAM[3 + i], the variable Seg.<i> for static
SegCell ==
    CASE vm_in.seg \in { <<"l", "o", "c", "a", "l">>, <<"a", "r", "g", "u", "m", "e", "n", "t">>, <<"t", "h", "i", "s">>, <<"t", "h", "a", "t">> } ->
            SegRam[InitSymbolTable[TableGet(SEGMENT_TABLE, vm_in.seg)]] + vm_in.i
      [] vm_in.seg = <<"t", "e", "m", "p">> -> 5 + vm_in.i
      [] vm_in.seg = <<"p", "o", "i", "n", "t", "e", "r">> -> 3 + vm_in.i
      [] OTHER -> HackVariables(asm_out, HackLabels(asm_out))[<<"S", "e", "g", ".">> \o ToDec(vm_in.i)]

\* C16: for each of local, argument, this, that, temp, pointer, static and each
\* index i, the assembly of `pop S i` runs to its end, stores the old top of
\* the stack in the cell the segment mapping designates and lowers SP by one,
\* and a following `push S i` pushes that value back.
C16_PopThenPushRoundTrip ==
    /\ cpu.st \notin {"panic", "fault"}
    /\ AfterPop => /\ Rd(ram, SegCell) = Word(vm_in.v)
                   /\ Rd(ram, 0) = 256
    /\ Finished => /\ Rd(ram, 0) = IF vm_in.between THEN 258 ELSE 257
                   /\ Rd(ram, Rd(ram, 0) - 1) = Word(vm_in.v)

\* the same for the segments other than static
C16_RoundTripOtherThanStatic == vm_in.seg # <<"s", "t", "a", "t", "i", "c">> => C16_PopThenPushRoundTrip

C16_Witness == Finished /\ vm_in.seg = <<"t", "h", "a", "t">> /\ vm_in.i = 2 /\ vm_in.between /\ vm_in.v = 77

-----------------------------------------------------------------------------
(* the binary arithmetic commands *)

BinaryOps == { <<"a", "d", "d">>, <<"s", "u", "b">>, <<"a", "n", "d">>, <<"o", "r">> }

ArithValues == {0, 1, 7, 8, -1, 32767, -32767}

ArithInit ==
    /\ vm_in \in { [ op |-> op, x |-> x, y |-> y, multi_files |-> FALSE,
                     files |-> << [ name |-> <<"A", "r", "i", "t", "h">>,
                                    lines |-> PushValue(x) \o PushValue(y) \o <<op>> ] >> ] :
                   op \in BinaryOps, x \in ArithValues, y \in ArithValues }
    /\ asm_out = <<>>
    /\ rom = <<>>
    /\ cpu = CpuReset
    /\ ram = (0 :> 256)
    /\ snap = NoCalls
    /\ AsmIdle /\ GenIdle /\ TokIdle /\ ParIdle

SpecArith == ArithInit /\ [][VmtNext]_vars

\* bit k of a word, and the word of sixteen bits
BitOf(w, k) == (w \div (2 ^ k)) % 2

RECURSIVE WordOfBits(_, _)
WordOfBits(bits, k) == IF k < 0 THEN 0 ELSE bits[k] * (2 ^ k) + WordOfBits(bits, k - 1)

\* x+y, x-y, x&y, x|y in 16-bit two's complement
ArithResult(op, x, y) ==
    CASE op = <<"a", "d", "d">> -> Word(x + y)
      [] op = <<"s", "u", "b">> -> Word(x - y)
      [] op = <<"a", "n", "d">> ->
            WordOfBits([k \in 0..15 |-> IF BitOf(Word(x), k) = 1 /\ BitOf(Word(y), k) = 1
                                        THEN 1 ELSE 0], 15)
      [] OTHER ->
            WordOfBits([k \in 0..15 |-> IF BitOf(Word(x), k) = 1 \/ BitOf(Word(y), k) = 1
                                        THEN 1 ELSE 0], 15)

\* the address of the first instruction of the command
ArithStart ==
    LET out == run(<< [ name |-> <<"A", "r", "i", "t", "h">>,
                        lines |-> PushValue(vm_in.x) \o PushValue(vm_in.y) ] >>, FALSE).output
    IN  HackAddress(out, Len(out) + 1)

-----------------------------------------------------------------------------
(* the symbol tables during code generation *)

VarKinds == {"static", "field", "argument", "local"}

\* the names of a table with the kind
OfKind(st, kind) == {n \in DOMAIN st.table : st.table[n].kind = kind}

\* no two names of the table share (kind, index), and the indices of each kind
\* are 0 .. var_count(kind) - 1
TableDense(st) ==
    /\ \A n1 \in DOMAIN st.table : \A n2 \in DOMAIN st.table :
          n1 # n2 => <<st.table[n1].kind, st.table[n1].index>>
                       # <<st.table[n2].kind, st.table[n2].index>>
    /\ \A kind \in VarKinds :
          {st.table[n].index : n \in OfKind(st, kind)} = 0..(var_count(st, kind) - 1)

\* the names declared by a list of declarations, in order
RECURSIVE DeclaredNames(_)
DeclaredNames(decs) ==
    IF decs = <<>> THEN <<>> ELSE Head(decs).names \o DeclaredNames(Tail(decs))

\* the names of the class variables of the kind, in order
ClassNames(kind) ==
    DeclaredNames(SelectSeq(ast.vars, LAMBDA dec : dec.kind = kind))

\* the arguments of a subroutine in order, `this` first for a method
ArgumentNames(sub) ==
    (IF sub.kind = "method" THEN << <<"t", "h", "i", "s">> >> ELSE <<>>)
      \o [i \in 1..Len(sub.params) |-> sub.params[i].name]

\* the names are in the table with the kind, numbered from 0 in this order
InOrder(st, kind, names) ==
    \A i \in 1..Len(names) :
        /\ names[i] \in DOMAIN st.table
        /\ st.table[names[i]].kind = kind
        /\ st.table[names[i]].index = i - 1

\* the class variables have been defined
ClassDefined == gen_pc.st # "class"

\* a subroutine has been entered: the method scope is that of the subroutine
\* of the node written last
SubroutineEntered == gen_log.node # NoNode

\* C18: at every point of code generation no two names of the class-level table
\* and no two names of the subroutine-level table share (kind, index), the
\* indices of each kind in a table are exactly 0 .. var_count(kind) - 1, and the
\* declared names are numbered in declaration order, `this` being argument 0
\* of a method.
C18_SymbolIndicesDense ==
    /\ TableDense(context.class_scope)
    /\ TableDense(context.method_scope)
    /\ ClassDefined =>
          /\ InOrder(context.class_scope, "static", ClassNames("static"))
          /\ InOrder(context.class_scope, "field", ClassNames("field"))
    /\ SubroutineEntered =>
          LET sub == ast.subroutines[gen_log.sub]
          IN  /\ InOrder(context.method_scope, "argument", ArgumentNames(sub))
              /\ InOrder(context.method_scope, "local", DeclaredNames(sub.body.local_vars))

\* in a method with two parameters and two local variables a statement has
\* been written: this, p0, p1 are arguments 0, 1, 2, and arr is field 3
C18_Witness ==
    /\ Wrote("let")
    /\ ast.subroutines[gen_log.sub].kind = "method"
    /\ var_count(context.method_scope, "argument") = 3
    /\ var_count(context.method_scope, "local") >= 2
    /\ context.method_scope.table[<<"t", "h", "i", "s">>].index = 0
    /\ context.method_scope.table[<<"p", "1">>].index = 2
    /\ context.class_scope.table[<<"a", "r", "r">>].index = 3

-----------------------------------------------------------------------------
(* jack_tokenizer.rs *)

NL == "\n"
QUOTE == "\""

KEYWORDS ==
    { <<"c", "l", "a", "s", "s">>, <<"c", "o", "n", "s", "t", "r", "u", "c", "t", "o", "r">>, <<"f", "u", "n", "c", "t", "i", "o", "n">>, <<"m", "e", "t", "h", "o", "d">>, <<"f", "i", "e", "l", "d">>, <<"s", "t", "a", "t", "i", "c">>, <<"v", "a", "r">>,
      <<"i", "n", "t">>, <<"c", "h", "a", "r">>, <<"b", "o", "o", "l", "e", "a", "n">>, <<"v", "o", "i", "d">>, <<"t", "r", "u", "e">>, <<"f", "a", "l", "s", "e">>, <<"n", "u", "l", "l">>, <<"t", "h", "i", "s">>,
      <<"l", "e", "t">>, <<"d", "o">>, <<"i", "f">>, <<"e", "l", "s", "e">>, <<"w", "h", "i", "l", "e">>, <<"r", "e", "t", "u", "r", "n">> }

SYMBOLS ==
    { "{", "}", "(", ")", "[", "]", ".", ",", ";", "+", "-", "*", "/", "&", "|", "<",
      ">", "=", "~" }

\* char::is_numeric, char::is_alphanumeric for the characters of the model
is_numeric(c) == IsDigit(c)
is_alphanumeric(c) ==
    \/ IsDigit(c)
    \/ \E i \in 1..Len(UPPER) : UPPER[i] = c
    \/ \E i \in 1..Len(LOWER) : LOWER[i] = c

\* str::find(&str): 0-based index of the first occurrence, -1 for None
find_str(s, pat) ==
    LET at == {i \in 0..(Len(s) - Len(pat)) : SubSeq(s, i + 1, i + Len(pat)) = pat}
    IN  IF at = {} THEN -1 ELSE CHOOSE i \in at : \A j \in at : i <= j

\* str::contains(&str)
contains(s, pat) == find_str(s, pat) >= 0

\* str::lines
RECURSIVE lines(_)
lines(text) ==
    IF text = <<>> THEN <<>>
    ELSE IF find(text, NL) < 0 THEN <<text>>
    ELSE <<substr(text, 0, find(text, NL))>>
           \o lines(substr(text, find(text, NL) + 1, Len(text)))

\* JackTokenizer::new, the loop over the lines of the file: the codes kept
RECURSIVE read_codes(_, _, _)
read_codes(rest, kept, multi_comments) ==
    IF rest = <<>> THEN kept
    ELSE LET line == trim(Head(rest))
         IN  IF multi_comments
             THEN IF ~contains(line, <<"*", "/">>)
                  THEN read_codes(Tail(rest), kept, TRUE)
                  ELSE LET start == find_str(line, <<"*", "/">>) + 2
                       IN  read_codes(Tail(rest),
                                      Append(kept, trim(substr(line, start, Len(line) - start))),
                                      FALSE)
             ELSE IF line = <<>> \/ (Len(line) >= 2 /\ SubSeq(line, 1, 2) = <<"/", "/">>)
             THEN read_codes(Tail(rest), kept, FALSE)
             ELSE IF contains(line, <<"/", "/">>)
             THEN read_codes(Tail(rest),
                             Append(kept, trim(substr(line, 0, find_str(line, <<"/", "/">>)))),
                             FALSE)
             ELSE IF contains(line, <<"/", "*">>)
             THEN LET start == find_str(line, <<"/", "*">>)
                      end == find_str(line, <<"*", "/">>)
                  IN  IF end < 0
                      THEN read_codes(Tail(rest), Append(kept, trim(substr(line, 0, start))),
                                      TRUE)
                      ELSE read_codes(Tail(rest),
                                      Append(kept,
                                             trim(substr(line, 0, start))
                                               \o trim(substr(line, end + 2,
                                                              Len(line) - end - 2))),
                                      FALSE)
             ELSE read_codes(Tail(rest), Append(kept, line), FALSE)

\* Token::new
Token(category, value, line) == [category |-> category, value |-> value, line |-> line]

\* the inner loops of tokenize go on over the character c: of a string up to
\* the closing quote, of a number over digits, of a word over letters and digits
GoesOn(loop, c) ==
    CASE loop = "string" -> c # QUOTE
      [] loop = "number" -> is_numeric(c)
      [] OTHER -> is_alphanumeric(c)

\* the 0-based position at which the loop begun at i ends
RECURSIVE RunEnd(_, _, _)
RunEnd(s, i, loop) ==
    IF i < Len(s) /\ GoesOn(loop, s[i + 1]) THEN RunEnd(s, i + 1, loop) ELSE i

\* the token that begins with the character c at the 0-based position i of s and
\* ends before the position end
TokenAt(s, i, c, end, line) ==
    CASE c \in SYMBOLS -> Token("symbol", <<c>>, line)
      [] c = QUOTE -> Token("stringConstant", SubSeq(s, i + 2, end), line)
      [] is_numeric(c) -> Token("integerConstant", SubSeq(s, i + 1, end), line)
      [] OTHER -> Token(IF SubSeq(s, i + 1, end) \in KEYWORDS THEN "keyword" ELSE "identifier",
                        SubSeq(s, i + 1, end), line)

\* where the inner loop of the token that begins with c at i ends
TokenEnd(s, i, c) ==
    CASE c \in SYMBOLS -> i + 1
      [] c = QUOTE -> RunEnd(s, i + 1, "string")
      [] is_numeric(c) -> RunEnd(s, i + 1, "number")
      [] OTHER -> RunEnd(s, i + 1, "word")

\* JackTokenizer::tokenize, the loop over the characters of a line: chars.i is
\* i, and the value is the tokens pushed from there on
RECURSIVE tokenize_line(_, _, _)
tokenize_line(s, i, line) ==
    IF i >= Len(s) THEN <<>>
    ELSE IF s[i + 1] = " " THEN tokenize_line(s, i + 1, line)
    ELSE << TokenAt(s, i, s[i + 1], TokenEnd(s, i, s[i + 1]), line) >>
           \o tokenize_line(s, IF s[i + 1] = QUOTE
                                THEN Min(TokenEnd(s, i, QUOTE) + 1, Len(s))
                                ELSE TokenEnd(s, i, s[i + 1]),
                             line)

\* JackTokenizer::tokenize, the loop over the codes: i is the index of the line
RECURSIVE tokenize(_, _)
tokenize(kept, i) ==
    IF i >= Len(kept) THEN <<>>
    ELSE tokenize_line(trim(kept[i + 1]), 0, i) \o tokenize(kept, i + 1)

\* ---- the files tokenized ----

MaxPieces == 5      \* pieces of the text of a .jack file

JackPieces == { <<"x">>, <<"1">>, <<" ">>, <<"/", "*">>, <<"*", "/">>, <<QUOTE>>, <<NL>> }

RECURSIVE Concat(_)
Concat(pieces) == IF pieces = <<>> THEN <<>> ELSE Head(pieces) \o Concat(Tail(pieces))

JackTexts == { Concat(pieces) : pieces \in UNION { [1..n -> JackPieces] : n \in 1..MaxPieces } }

\* a .jack file of the set texts is to be read
TokStart(texts) ==
    /\ jack_src \in texts
    /\ tok_codes = <<>>
    /\ tokens = <<>>
    /\ tok_pc = "new"

TokInit ==
    /\ TokStart(JackTexts)
    /\ AsmIdle /\ VmtIdle /\ GenIdle /\ ParIdle

\* JackTokenizer::new
JackTokenizerNew ==
    /\ tok_pc = "new"
    /\ tok_codes' = read_codes(lines(jack_src), <<>>, FALSE)
    /\ tok_pc' = "tokenize"
    /\ UNCHANGED <<jack_src, tokens>>
    /\ UNCHANGED <<asm_vars, vmt_vars, gen_vars, par_vars>>

\* JackTokenizer::tokenize
Tokenize ==
    /\ tok_pc = "tokenize"
    /\ tokens' = tokenize(tok_codes, 0)
    /\ tok_pc' = "save"
    /\ UNCHANGED <<jack_src, tok_codes>>
    /\ UNCHANGED <<asm_vars, vmt_vars, gen_vars, par_vars>>

\* JackTokenizer::save_file
TokSaveFile ==
    /\ tok_pc = "save"
    /\ tok_pc' = "done"
    /\ UNCHANGED <<jack_src, tok_codes, tokens>>
    /\ UNCHANGED <<asm_vars, vmt_vars, gen_vars, par_vars>>

TokNext == JackTokenizerNew \/ Tokenize \/ TokSaveFile

SpecTok == TokInit /\ [][TokNext]_vars

\* ---- the lexical structure of the text ----

\* where a scan of the text from the 0-based position i ends: "code" at the end
\* of the text outside comments and strings, "comment" inside a block comment
\* that is never closed, "string" at the end of a line inside a string literal
RECURSIVE ScanEnd(_, _, _)
ScanEnd(text, i, mode) ==
    LET two == SubSeq(text, i + 1, Min(i + 2, Len(text)))
    IN  IF i >= Len(text) THEN (IF mode = "line" THEN "code" ELSE mode)
        ELSE CASE mode = "code" ->
                    ( CASE two = <<"/", "*">> -> ScanEnd(text, i + 2, "comment")
                        [] two = <<"/", "/">> -> ScanEnd(text, i + 2, "line")
                        [] text[i + 1] = QUOTE -> ScanEnd(text, i + 1, "string")
                        [] OTHER -> ScanEnd(text, i + 1, "code") )
               [] mode = "comment" ->
                    IF two = <<"*", "/">> THEN ScanEnd(text, i + 2, "code")
                    ELSE ScanEnd(text, i + 1, "comment")
               [] mode = "line" ->
                    ScanEnd(text, i + 1, IF text[i + 1] = NL THEN "code" ELSE "line")
               [] OTHER ->
                    IF text[i + 1] = NL THEN "string"
                    ELSE ScanEnd(text, i + 1, IF text[i + 1] = QUOTE THEN "code" ELSE "string")

Unterminated == ScanEnd(jack_src, 0, "code") \in {"comment", "string"}

\* tokenize has returned the tokens
Returned == tok_pc \in {"save", "done"}

\* C19: for a source with a block comment that is never closed, or a string
\* literal whose closing double quote is missing on its line, the tokenizer
\* stops with a fatal error and produces no token stream: it never returns
\* from tokenize for such a source.
C19_UnterminatedIsFatal == Unterminated => ~Returned /\ tokens = <<>>

\* ---- a block comment between plain text ----

\* the text is <before> /* <inside> */ <after>: the first opener, and the first
\* closer after it
OpenAt == find_str(jack_src, <<"/", "*">>)
AfterOpen == substr(jack_src, OpenAt + 2, Len(jack_src))
CloseAt == find_str(AfterOpen, <<"*", "/">>)
TextBefore == substr(jack_src, 0, OpenAt)
TextInside == substr(AfterOpen, 0, CloseAt)
TextAfter == substr(AfterOpen, CloseAt + 2, Len(AfterOpen))

\* words, numbers and blanks of one line
Plain(s) == \A i \in 1..Len(s) : s[i] \in {"x", "1", " "}

\* one block comment, closed on the same line or on a later one, with plain
\* text before it and after it
OneBlockComment ==
    /\ OpenAt >= 0 /\ CloseAt >= 0
    /\ Plain(TextBefore) /\ Plain(TextAfter)

\* the tokens without their line numbers
Values(ts) == [i \in 1..Len(ts) |-> <<ts[i].category, ts[i].value>>]

\* C20: for a line with a block comment, closed on the same line or on a later
\* one, the tokens are exactly the tokens of the text before the opener followed
\* by the tokens of the text after the closer: the text inside is dropped, the
\* text outside is kept, and the token before the comment and the token after
\* it are not fused.
C20_BlockCommentSeparates ==
    (Returned /\ OneBlockComment) =>
        Values(tokens) = Values(tokenize_line(trim(TextBefore), 0, 0))
                           \o Values(tokenize_line(trim(TextAfter), 0, 0))

\* the same for a comment closed on a later line
C20_CommentOverLines ==
    (Returned /\ OneBlockComment /\ contains(TextInside, <<NL>>)
       /\ ~contains(jack_src, <<"/", "*", "/">>)) =>
        Values(tokens) = Values(tokenize_line(trim(TextBefore), 0, 0))
                           \o Values(tokenize_line(trim(TextAfter), 0, 0))

-----------------------------------------------------------------------------
(* jack_parser.rs *)

CLASS_DEC == { <<"s", "t", "a", "t", "i", "c">>, <<"f", "i", "e", "l", "d">> }
FUNC_DEC == { <<"c", "o", "n", "s", "t", "r", "u", "c", "t", "o", "r">>, <<"f", "u", "n", "c", "t", "i", "o", "n">>, <<"m", "e", "t", "h", "o", "d">> }
STATEMENTS == { <<"l", "e", "t">>, <<"i", "f">>, <<"w", "h", "i", "l", "e">>, <<"d", "o">>, <<"r", "e", "t", "u", "r", "n">> }
OP == { "+", "-", "*", "/", "&", "|", "<", ">", "=" }
UNARY_OP == { "-", "~" }

CharType == [ty |-> "char", class |-> <<>>]
BooleanType == [ty |-> "boolean", class |-> <<>>]

\* a JackParser: the token stream with its cursor i, the value the function
\* called last returned, and panic after a panic!(), a failed unwrap() or an
\* index out of the bounds of the tokens. completed_tokens, the XML listing, is
\* left out. wrong and terms are history: the tokens step consumed where
\* another keyword or symbol was expected, and for each call of compile_term
\* that began at a string constant the token and the term returned.
NewParser(toks) ==
    [ tokens |-> toks, i |-> 0, panic |-> FALSE, val |-> <<>>, wrong |-> <<>>,
      terms |-> <<>> ]

NoTerm == [t |-> "none"]

PPanic(p) == [p EXCEPT !.panic = TRUE]
Ret(p, v) == [p EXCEPT !.val = v]

\* TokenStream::is_end, TokenStream::peek
is_end(p) == p.i >= Len(p.tokens)
peek(p) == p.tokens[p.i + 1]

\* TokenStream::next, the cursor after it
next(p) == [p EXCEPT !.i = @ + 1]

\* the parser can go on to read a token
Reads(p) == ~p.panic /\ ~is_end(p)

\* JackParser::step
step(p, expected) ==
    IF ~Reads(p) THEN PPanic(p)
    ELSE LET token == peek(p)
         IN  IF token.category \in {"keyword", "symbol"}
             THEN IF token.value # expected THEN PPanic(p) ELSE next(p)
             ELSE [next(p) EXCEPT !.wrong = Append(@, [expected |-> expected, token |-> token])]

\* JackParser::step_identifier
step_identifier(p) ==
    IF ~Reads(p) THEN PPanic(p)
    ELSE IF peek(p).category # "identifier" THEN PPanic(p)
    ELSE Ret(next(p), peek(p).value)

\* JackParser::step_type
step_type(p) ==
    IF ~Reads(p) THEN PPanic(p)
    ELSE IF peek(p).category \notin {"keyword", "identifier"} THEN PPanic(p)
    ELSE Ret(next(p),
             CASE peek(p).value = <<"i", "n", "t">> -> IntType
               [] peek(p).value = <<"c", "h", "a", "r">> -> CharType
               [] peek(p).value = <<"b", "o", "o", "l", "e", "a", "n">> -> BooleanType
               [] OTHER -> ClassType(peek(p).value))

\* the value of f at x, with x evaluated once
With(x, f(_)) == CHOOSE r \in { f(v) : v \in {x} } : TRUE

\* step on the parser x leaves
StepAfter(x, expected) == With(x, LAMBDA a : step(a, expected))

\* the loops `while peek().value == "," { step(","); step_identifier() }`
RECURSIVE more_names(_, _)
more_names(p, names) ==
    IF ~Reads(p) THEN PPanic(p)
    ELSE IF peek(p).value = <<",">>
    THEN With(step_identifier(step(p, <<",">>)), LAMBDA p1 :
              IF p1.panic THEN p1 ELSE more_names(p1, Append(names, p1.val)))
    ELSE Ret(p, names)

RECURSIVE compile_expression(_)
RECURSIVE compile_term(_)
RECURSIVE compile_expression_list(_)

\* JackParser::compile_expression, the loop over the op terms
RECURSIVE more_op_terms(_, _)
more_op_terms(p, op_terms) ==
    IF ~Reads(p) THEN PPanic(p)
    ELSE IF peek(p).value = <<>> THEN PPanic(p)
    ELSE IF peek(p).value[1] \in OP
    THEN IF Len(peek(p).value) # 1 THEN PPanic(p)
         ELSE With(compile_term(next(p)), LAMBDA p1 :
                   IF p1.panic THEN p1
                   ELSE more_op_terms(p1, Append(op_terms, OpTerm(peek(p).value[1], p1.val))))
    ELSE Ret(p, op_terms)

\* JackParser::compile_expression
compile_expression(p) ==
    With(compile_term(p), LAMBDA p1 :
         IF p1.panic THEN p1
         ELSE With(more_op_terms(p1, <<>>), LAMBDA p2 :
                   IF p2.panic THEN p2 ELSE Ret(p2, Expr(p1.val, p2.val))))

\* the loop `while peek().value == "," { step(","); compile_expression() }`
RECURSIVE more_expressions(_, _)
more_expressions(p, expressions) ==
    IF ~Reads(p) THEN PPanic(p)
    ELSE IF peek(p).value = <<",">>
    THEN With(compile_expression(step(p, <<",">>)), LAMBDA p1 :
              IF p1.panic THEN p1 ELSE more_expressions(p1, Append(expressions, p1.val)))
    ELSE Ret(p, expressions)

\* JackParser::compile_expression_list
compile_expression_list(p) ==
    IF ~Reads(p) THEN PPanic(p)
    ELSE IF peek(p).value # <<")">>
    THEN With(compile_expression(p), LAMBDA p1 :
              IF p1.panic THEN p1 ELSE more_expressions(p1, <<p1.val>>))
    ELSE Ret(p, <<>>)

\* `(` expressionList `)`: the value is the list
call_args(p) == StepAfter(compile_expression_list(step(p, <<"(">>)), <<")">>)

KeywordOf(value) ==
    CASE value = <<"f", "a", "l", "s", "e">> -> "false"
      [] value = <<"t", "r", "u", "e">> -> "true"
      [] value = <<"n", "u", "l", "l">> -> "null"
      [] OTHER -> "this"

\* JackParser::compile_term, the last arm: token has been taken
term_of_token(p, token) ==
    IF ~Reads(p) THEN PPanic(p)
    ELSE CASE peek(p).value = <<"[">> ->
                With(StepAfter(compile_expression(step(p, <<"[">>)), <<"]">>), LAMBDA p1 :
                     IF p1.panic THEN p1 ELSE Ret(p1, ArrayTerm(token.value, p1.val)))
           [] peek(p).value = <<"(">> ->
                With(call_args(p), LAMBDA p1 :
                     IF p1.panic THEN p1
                     ELSE Ret(p1, CallTerm(InternalCall(token.value, p1.val))))
           [] peek(p).value = <<".">> ->
                With(step_identifier(step(p, <<".">>)), LAMBDA p1 :
                     With(call_args(p1), LAMBDA p2 :
                          IF p2.panic THEN p2
                          ELSE Ret(p2, CallTerm(ExternalCall(token.value, p1.val, p2.val)))))
           [] OTHER ->
                CASE token.category = "integerConstant" ->
                        Ret(p, IntegerConst(DecVal(token.value)))
                  [] token.category = "stringConstant" -> Ret(p, StringConst(token.value))
                  [] token.category = "keyword" ->
                        IF token.value \in { <<"f", "a", "l", "s", "e">>, <<"t", "r", "u", "e">>, <<"n", "u", "l", "l">>, <<"t", "h", "i", "s">> }
                        THEN Ret(p, KeywordConst(KeywordOf(token.value)))
                        ELSE PPanic(p)
                  [] token.category = "identifier" -> Ret(p, VarName(token.value))
                  [] OTHER -> PPanic(p)

\* JackParser::compile_term without the history
term_at(p) ==
    IF ~Reads(p) THEN PPanic(p)
    ELSE IF peek(p).value = <<"(">>
    THEN With(StepAfter(compile_expression(step(p, <<"(">>)), <<")">>), LAMBDA p1 :
              IF p1.panic THEN p1 ELSE Ret(p1, ParenTerm(p1.val)))
    ELSE IF peek(p).value = <<>> THEN PPanic(p)
    ELSE IF peek(p).value[1] \in UNARY_OP
    THEN IF Len(peek(p).value) # 1 THEN PPanic(p)
         ELSE With(compile_term(next(p)), LAMBDA p1 :
                   IF p1.panic THEN p1 ELSE Ret(p1, UnaryTerm(peek(p).value[1], p1.val)))
    ELSE With(next(p), LAMBDA p1 : term_of_token(p1, peek(p)))

\* JackParser::compile_term
compile_term(p0) ==
    With(p0, LAMBDA p :
    With(term_at(p), LAMBDA p1 :
         IF Reads(p) /\ peek(p).category = "stringConstant"
         THEN [p1 EXCEPT !.terms = Append(@, [token |-> peek(p),
                                              term |-> IF p1.panic THEN NoTerm ELSE p1.val,
                                              taken |-> p1.i - p.i])]
         ELSE p1))

\* ---- statements ----

RECURSIVE compile_statements(_)

\* `{` statements `}`
block(p) == StepAfter(compile_statements(step(p, <<"{">>)), <<"}">>)

\* JackParser::compile_if
compile_if(p) ==
    With(StepAfter(compile_expression(step(step(p, <<"i", "f">>), <<"(">>)), <<")">>), LAMBDA p1 :
         IF p1.panic THEN p1
         ELSE With(block(p1), LAMBDA p2 :
                   IF ~Reads(p2) THEN PPanic(p2)
                   ELSE IF peek(p2).value = <<"e", "l", "s", "e">>
                   THEN With(block(step(p2, <<"e", "l", "s", "e">>)), LAMBDA p3 :
                             IF p3.panic THEN p3
                             ELSE Ret(p3, IfStatement(p1.val, p2.val, Else(p3.val))))
                   ELSE Ret(p2, IfStatement(p1.val, p2.val, NoElse))))

\* JackParser::compile_let
compile_let(p) ==
    With(step_identifier(step(p, <<"l", "e", "t">>)), LAMBDA p1 :
         IF ~Reads(p1) THEN PPanic(p1)
         ELSE With(IF peek(p1).value = <<"[">>
                   THEN StepAfter(compile_expression(step(p1, <<"[">>)), <<"]">>)
                   ELSE p1, LAMBDA p2 :
              With(StepAfter(compile_expression(step(p2, <<"=">>)), <<";">>), LAMBDA p3 :
                   IF p3.panic THEN p3
                   ELSE Ret(p3, LetStatement(p1.val,
                                             IF peek(p1).value = <<"[">> THEN p2.val ELSE NoExpr,
                                             p3.val)))))

\* JackParser::compile_while
compile_while(p) ==
    With(StepAfter(compile_expression(step(step(p, <<"w", "h", "i", "l", "e">>), <<"(">>)), <<")">>), LAMBDA p1 :
         IF p1.panic THEN p1
         ELSE With(block(p1), LAMBDA p2 :
                   IF p2.panic THEN p2 ELSE Ret(p2, WhileStatement(p1.val, p2.val))))

\* JackParser::compile_do
compile_do(p) ==
    With(step_identifier(step(p, <<"d", "o">>)), LAMBDA p1 :
         IF ~Reads(p1) THEN PPanic(p1)
         ELSE IF peek(p1).value = <<"(">>
         THEN With(StepAfter(call_args(p1), <<";">>), LAMBDA p2 :
                   IF p2.panic THEN p2
                   ELSE Ret(p2, DoStatement(InternalCall(p1.val, p2.val))))
         ELSE IF peek(p1).value = <<".">>
         THEN With(step_identifier(step(p1, <<".">>)), LAMBDA p2 :
                   With(StepAfter(call_args(p2), <<";">>), LAMBDA p3 :
                        IF p3.panic THEN p3
                        ELSE Ret(p3, DoStatement(ExternalCall(p1.val, p2.val, p3.val)))))
         ELSE PPanic(p1))

\* JackParser::compile_return
compile_return(p) ==
    With(step(p, <<"r", "e", "t", "u", "r", "n">>), LAMBDA p1 :
         IF ~Reads(p1) THEN PPanic(p1)
         ELSE IF peek(p1).value # <<";">>
         THEN With(StepAfter(compile_expression(p1), <<";">>), LAMBDA p2 :
                   IF p2.panic THEN p2 ELSE Ret(p2, ReturnStatement(p2.val)))
         ELSE Ret(step(p1, <<";">>), ReturnStatement(NoExpr)))

\* JackParser::compile_statements, the loop
RECURSIVE more_statements(_, _)
more_statements(p, statements) ==
    IF ~Reads(p) THEN PPanic(p)
    ELSE IF peek(p).value \in STATEMENTS
    THEN With(CASE peek(p).value = <<"i", "f">> -> compile_if(p)
                [] peek(p).value = <<"l", "e", "t">> -> compile_let(p)
                [] peek(p).value = <<"w", "h", "i", "l", "e">> -> compile_while(p)
                [] peek(p).value = <<"d", "o">> -> compile_do(p)
                [] OTHER -> compile_return(p), LAMBDA p1 :
              IF p1.panic THEN p1 ELSE more_statements(p1, Append(statements, p1.val)))
    ELSE Ret(p, statements)

\* JackParser::compile_statements
compile_statements(p0) == With(p0, LAMBDA p : more_statements(p, <<>>))

\* ---- declarations ----

\* the names of a declaration and the `;` after them: the value is the names
names_and_semicolon(p) ==
    With(step_identifier(p), LAMBDA p2 :
         IF p2.panic THEN p2
         ELSE With(more_names(p2, <<p2.val>>), LAMBDA p3 :
                   With(step(p3, <<";">>), LAMBDA p4 :
                        IF p4.panic THEN p4 ELSE Ret(p4, p3.val))))

\* JackParser::compile_class_var_dec
compile_class_var_dec(p) ==
    IF ~Reads(p) THEN PPanic(p)
    ELSE IF peek(p).value \notin CLASS_DEC THEN PPanic(p)
    ELSE With(step_type(next(p)), LAMBDA p1 :
              With(names_and_semicolon(p1), LAMBDA p4 :
                   IF p4.panic THEN p4
                   ELSE Ret(p4, ClassVarDec(IF peek(p).value = <<"s", "t", "a", "t", "i", "c">> THEN "static"
                                            ELSE "field",
                                            p1.val, p4.val))))

\* JackParser::compile_var_dec
compile_var_dec(p) ==
    With(step_type(step(p, <<"v", "a", "r">>)), LAMBDA p1 :
         With(names_and_semicolon(p1), LAMBDA p4 :
              IF p4.panic THEN p4 ELSE Ret(p4, VarDec(p1.val, p4.val))))

\* JackParser::compile_param_list, the loop
RECURSIVE more_params(_, _)
more_params(p, params) ==
    IF ~Reads(p) THEN PPanic(p)
    ELSE IF peek(p).value = <<",">>
    THEN With(step_type(step(p, <<",">>)), LAMBDA p1 :
              With(step_identifier(p1), LAMBDA p2 :
                   IF p2.panic THEN p2
                   ELSE more_params(p2, Append(params, Param(p1.val, p2.val)))))
    ELSE Ret(p, params)

\* JackParser::compile_param_list
compile_param_list(p0) ==
    With(p0, LAMBDA p :
    IF ~Reads(p) THEN PPanic(p)
    ELSE IF peek(p).value # <<")">>
    THEN With(step_type(p), LAMBDA p1 :
              With(step_identifier(p1), LAMBDA p2 :
                   IF p2.panic THEN p2 ELSE more_params(p2, << Param(p1.val, p2.val) >>)))
    ELSE more_params(p, <<>>))

\* JackParser::compile_subroutine, the loop over the var declarations
RECURSIVE more_var_decs(_, _)
more_var_decs(p, decs) ==
    IF ~Reads(p) THEN PPanic(p)
    ELSE IF peek(p).value = <<"v", "a", "r">>
    THEN With(compile_var_dec(p), LAMBDA p1 :
              IF p1.panic THEN p1 ELSE more_var_decs(p1, Append(decs, p1.val)))
    ELSE Ret(p, decs)

\* JackParser::compile_subroutine; the return type is read and not kept
compile_subroutine(p) ==
    IF ~Reads(p) THEN PPanic(p)
    ELSE IF peek(p).value \notin FUNC_DEC THEN PPanic(p)
    ELSE LET kind == CASE peek(p).value = <<"c", "o", "n", "s", "t", "r", "u", "c", "t", "o", "r">> -> "constructor"
                       [] peek(p).value = <<"f", "u", "n", "c", "t", "i", "o", "n">> -> "function"
                       [] OTHER -> "method"
         IN  With(IF is_end(next(p)) THEN PPanic(next(p)) ELSE next(next(p)), LAMBDA p1 :
             With(step_identifier(p1), LAMBDA p2 :
             IF p2.panic THEN p2
             ELSE With(StepAfter(compile_param_list(step(p2, <<"(">>)), <<")">>), LAMBDA p3 :
             IF p3.panic THEN p3
             ELSE With(step(p3, <<"{">>), LAMBDA p3b :
                  With(more_var_decs(p3b, <<>>), LAMBDA p4 :
             IF p4.panic THEN p4
             ELSE With(compile_statements(p4), LAMBDA p5 :
                  With(step(p5, <<"}">>), LAMBDA p6 :
             IF p6.panic THEN p6
             ELSE Ret(p6, SubroutineDec(kind, p2.val, p3.val,
                                        SubroutineBody(p4.val, p5.val))))))))))

\* JackParser::compile_class, the two loops
RECURSIVE more_class_var_decs(_, _)
more_class_var_decs(p, decs) ==
    IF ~Reads(p) THEN PPanic(p)
    ELSE IF peek(p).value \in CLASS_DEC
    THEN With(compile_class_var_dec(p), LAMBDA p1 :
              IF p1.panic THEN p1 ELSE more_class_var_decs(p1, Append(decs, p1.val)))
    ELSE Ret(p, decs)

RECURSIVE more_subroutines(_, _)
more_subroutines(p, subroutines) ==
    IF ~Reads(p) THEN PPanic(p)
    ELSE IF peek(p).value \in FUNC_DEC
    THEN With(compile_subroutine(p), LAMBDA p1 :
              IF p1.panic THEN p1 ELSE more_subroutines(p1, Append(subroutines, p1.val)))
    ELSE Ret(p, subroutines)

\* JackParser::compile_class
compile_class(p) ==
    With(step_identifier(step(p, <<"c", "l", "a", "s", "s">>)), LAMBDA p1 :
         IF p1.panic THEN p1
         ELSE With(step(p1, <<"{">>), LAMBDA p1b :
              With(more_class_var_decs(p1b, <<>>), LAMBDA p2 :
                   IF p2.panic THEN p2
                   ELSE With(more_subroutines(p2, <<>>), LAMBDA p3 :
                        With(step(p3, <<"}">>), LAMBDA p4 :
                             IF p4.panic THEN p4
                             ELSE Ret(p4, Class(p1.val, p2.val, p3.val)))))))

\* ---- the files parsed ----

\* the word ends a line of the file: a declaration, a statement or a brace
EndsLine(word) == word \in { <<";">>, <<"{">>, <<"}">> }

\* the text of the file: the words, with a line break after a word that ends a
\* line and a blank after any other
RECURSIVE Join(_)
Join(words) ==
    IF Len(words) = 1 THEN words[1]
    ELSE Join(SubSeq(words, 1, Len(words) \div 2))
           \o (IF EndsLine(words[Len(words) \div 2]) THEN <<NL>> ELSE <<" ">>)
           \o Join(SubSeq(words, Len(words) \div 2 + 1, Len(words)))

\* the string literal with the text s
Str(s) == <<QUOTE>> \o s \o <<QUOTE>>

\* string literals: ordinary, empty, and with the text of a symbol
StringTerms ==
    { Str(<<"h", "i">>), Str(<<>>), Str(<<"(">>), Str(<<"[">>), Str(<<".">>), Str(<<",">>), Str(<<")">>),
      Str(<<"-">>), Str(<<"~", "x">>), Str(<<"+">>), Str(<<"x">>) }

TermWords == { <<"x">>, <<"7">>, <<"t", "h", "i", "s">> } \cup StringTerms

\* statements with the term t
StatementsWith(t) ==
    { << <<"r", "e", "t", "u", "r", "n">>, t, <<";">> >>,
      << <<"l", "e", "t">>, <<"a">>, <<"=">>, t, <<";">> >>,
      << <<"l", "e", "t">>, <<"a">>, <<"=">>, t, <<"+">>, <<"1">>, <<";">> >>,
      << <<"d", "o">>, <<"f">>, <<"(">>, t, <<",">>, <<"b">>, <<")">>, <<";">> >>,
      << <<"l", "e", "t">>, <<"v">>, <<"[">>, <<"1">>, <<"]">>, <<"=">>, <<"-">>, t, <<";">> >> }

OtherStatements ==
    { << <<"i", "f">>, <<"(">>, <<"a">>, <<"<">>, <<"b">>, <<")">>, <<"{">>, <<"r", "e", "t", "u", "r", "n">>, <<";">>, <<"}">>,
         <<"e", "l", "s", "e">>, <<"{">>, <<"d", "o">>, <<"q">>, <<".">>, <<"g">>, <<"(">>, <<")">>, <<";">>, <<"}">> >>,
      << <<"w", "h", "i", "l", "e">>, <<"(">>, <<"~">>, <<"a">>, <<")">>, <<"{">>, <<"l", "e", "t">>, <<"a">>, <<"=">>, <<"b">>, <<";">>, <<"}">> >>,
      << <<"l", "e", "t">>, <<"a">>, <<"=">>, <<"(">>, <<"b">>, <<")">>, <<";">> >>,
      << <<"l", "e", "t">>, <<"a">>, <<"=">>, <<"v">>, <<"[">>, <<"0">>, <<"]">>, <<";">> >>,
      << <<"l", "e", "t">>, <<"a">>, <<"=">>, <<"f">>, <<"(">>, <<"p">>, <<")">>, <<";">> >> }

\* class A with two fields, and a method f with two parameters, a local
\* variable and the statement
ClassWords(statement) ==
    << <<"c", "l", "a", "s", "s">>, <<"A">>, <<"{">>, <<"f", "i", "e", "l", "d">>, <<"i", "n", "t">>, <<"a">>, <<",">>, <<"b">>, <<";">>,
       <<"m", "e", "t", "h", "o", "d">>, <<"v", "o", "i", "d">>, <<"f">>, <<"(">>, <<"i", "n", "t">>, <<"p">>, <<",">>, <<"A">>, <<"q">>, <<")">>, <<"{">>,
       <<"v", "a", "r">>, <<"b", "o", "o", "l", "e", "a", "n">>, <<"v">>, <<";">> >>
      \o statement \o << <<"}">>, <<"}">> >>

WellFormed ==
    { ClassWords(st) : st \in OtherStatements \cup UNION { StatementsWith(t) : t \in TermWords } }

\* a token of each category, put in the place of another token
Substitutes == { <<"z", "z">>, <<"7">>, Str(<<"s">>), <<"v", "a", "r">>, <<"+">> }

MaxExtra == 2       \* tokens after the closing brace of the class

Extras == { <<"}">>, <<"x">>, <<"c", "l", "a", "s", "s">> }

\* one token of the words replaced
ReplacedIn(ws) == { [ws EXCEPT ![k] = w] : k \in 1..Len(ws), w \in Substitutes }

\* tokens after the class
WithExtra(ws) == { ws \o extra : extra \in UNION { [1..n -> Extras] : n \in 1..MaxExtra } }

ParseTexts ==
    { Join(ws) : ws \in WellFormed
                          \cup UNION { ReplacedIn(ClassWords(st)) :
                                          st \in StatementsWith(<<"x">>) \cup OtherStatements }
                          \cup WithExtra(ClassWords(<< <<"r", "e", "t", "u", "r", "n">>, <<";">> >>)) }

ParseInit ==
    /\ TokStart(ParseTexts)
    /\ AsmIdle /\ VmtIdle /\ GenIdle /\ ParIdle

\* JackParser::new on the tokens of the tokenizer
JackParserNew ==
    /\ tok_pc = "save"
    /\ par_pc = "idle"
    /\ par_tokens' = tokens
    /\ par_pc' = "run"
    /\ par_log' = [wrong |-> <<>>, terms |-> <<>>]
    /\ UNCHANGED <<par_i, par_class>>
    /\ UNCHANGED <<asm_vars, vmt_vars, gen_vars, tok_vars>>

\* JackParser::run
JackParserRun ==
    /\ par_pc = "run"
    /\ \E p \in { compile_class(NewParser(par_tokens)) } :
           /\ par_i' = p.i
           /\ par_pc' = IF p.panic THEN "panic" ELSE "done"
           /\ par_class' = IF p.panic THEN par_class ELSE p.val
           /\ par_log' = [wrong |-> p.wrong, terms |-> p.terms]
    /\ UNCHANGED par_tokens
    /\ UNCHANGED <<asm_vars, vmt_vars, gen_vars, tok_vars>>

ParseNext == JackTokenizerNew \/ Tokenize \/ JackParserNew \/ JackParserRun

SpecParse == ParseInit /\ [][ParseNext]_vars

Parsed == par_pc = "done"
Ran == par_pc \in {"done", "panic"}

\* C21: whenever the parser expects a specific keyword or symbol and the next
\* token is anything else, of any token category, parsing halts with a fatal
\* error: step never lets a token pass in place of the one expected.
C21_UnexpectedTokenIsFatal == Ran => par_log.wrong = <<>>

\* C22: a successful parse of a class consumes every token of the input: when
\* JackParser::run returns without error the cursor is at the end of the
\* stream, so tokens after the closing brace of the class are not accepted.
C22_ParseConsumesAllTokens == Parsed => par_i = Len(par_tokens)

\* C29: a string constant in term position is always parsed as the StringConst
\* term of its text, whatever the text, and as nothing else: compile_term takes
\* that one token and returns the term.
C29_StringConstantIsATerm ==
    Ran => \A k \in 1..Len(par_log.terms) :
              /\ par_log.terms[k].term = StringConst(par_log.terms[k].token.value)
              /\ par_log.terms[k].taken = 1

-----------------------------------------------------------------------------
(* let x[i] = e: the order of the code *)

\* the generator after it has written the expression e, with nothing written
AfterExpr(e) == [write_expr(Before, e) EXCEPT !.out = <<>>]

\* the node written last is let x[i] = e
WroteArrayLet == Wrote("let") /\ gen_log.node.array_index # NoExpr

\* the entry of the array assigned to
Target == ctx_get(Before, gen_log.node.var_name)

\* compile e, compile i, push the base of x, add, pop pointer 1, pop that 0
ArrayLetCode(st) ==
    CodeOf(st.right_expr)
    \o write_expr(AfterExpr(st.right_expr), st.array_index).out
    \o << Line3(<<"p", "u", "s", "h">>, SegmentOf(Target.kind), ToDec(Target.index)),
          <<"a", "d", "d">>, <<"p", "o", "p", " ", "p", "o", "i", "n", "t", "e", "r", " ", "1">>, <<"p", "o", "p", " ", "t", "h", "a", "t", " ", "0">> >>

\* C23: for let x[i] = e the generator emits the code of e, then the code of
\* i, then the push of the base of x and add, then pop pointer 1 and
\* pop that 0, and nothing else.
C23_ArrayLetOrder ==
    WroteArrayLet => Emitted = ArrayLetCode(gen_log.node)

\* all but the last two lines are as described: the value of e is computed
\* before the address, and the address is x + i
C23_ArrayLetFront ==
    WroteArrayLet =>
        /\ Len(Emitted) = Len(ArrayLetCode(gen_log.node))
        /\ SubSeq(Emitted, 1, Len(Emitted) - 2)
              = SubSeq(ArrayLetCode(gen_log.node), 1, Len(Emitted) - 2)

\* the array assigned to is indexed by one of its own elements
C23_Witness ==
    /\ WroteArrayLet
    /\ gen_log.node.array_index.term.t = "array"
    /\ gen_log.node.right_expr.term.t = "array"

-----------------------------------------------------------------------------
(* The VM code of an if statement, run under the semantics of the VM *)

\* the steps a run may take
MaxVmSteps == 40

\* the values of the arguments c and d: false (0), 1 and true (-1)
IfValues == {0, 1, Word(-1)}

\* do Sys.name();
Mark(name) == DoStatement(ExternalCall(<<"S", "y", "s">>, name, <<>>))

\* the conditions: c, ~c, c & d, c = d, true, false
IfConds ==
    { E1(VarName(<<"c">>)),
      E1(UnaryTerm("~", VarName(<<"c">>))),
      Expr(VarName(<<"c">>), << OpTerm("&", VarName(<<"d">>)) >>),
      Expr(VarName(<<"c">>), << OpTerm("=", VarName(<<"d">>)) >>),
      E1(KeywordConst("true")),
      E1(KeywordConst("false")) }

\* if (d) { do Sys.<name>1(); } else { do Sys.<name>0(); }
Inner(name) ==
    IfStatement(E1(VarName(<<"d">>)), << Mark(name \o <<"1">>) >>, Else(<< Mark(name \o <<"0">>) >>))

\* the bodies T: they end with do Sys.t()
ThenBodies == { << Mark(<<"t">>) >>, << Inner(<<"t">>), Mark(<<"t">>) >> }

\* the bodies E: none, or one that ends with do Sys.e()
ElseBodies == { NoElse, Else(<< Mark(<<"e">>) >>), Else(<< Inner(<<"e">>), Mark(<<"e">>) >>) }

\* class Main { function void f(int c, int d) {
\*     if (cond) { T } else { E }  do Sys.after();  return; } }
IfClass(cond, t, e) ==
    Class(<<"M", "a", "i", "n">>, <<>>,
          << SubroutineDec("function", <<"f">>, << Param(IntType, <<"c">>), Param(IntType, <<"d">>) >>,
                 SubroutineBody(<<>>,
                     << IfStatement(cond, t, e), Mark(<<"a", "f", "t", "e", "r">>),
                        ReturnStatement(NoExpr) >>)) >>)

IfClasses == { IfClass(cond, t, e) : cond \in IfConds, t \in ThenBodies, e \in ElseBodies }

\* ---- the VM ----

\* the machine before the first command of f: the arguments are in place
VmReset == [st |-> "vm", pc |-> 0, stack |-> <<>>]

\* the cell of a segment: this and that are based on pointer 0 and pointer 1
VmCell(mem, segment, i) ==
    CASE segment = <<"t", "h", "i", "s">> -> << <<"h", "e", "a", "p">>, Rd(mem, << <<"p", "o", "i", "n", "t", "e", "r">>, 0 >>) + i >>
      [] segment = <<"t", "h", "a", "t">> -> << <<"h", "e", "a", "p">>, Rd(mem, << <<"p", "o", "i", "n", "t", "e", "r">>, 1 >>) + i >>
      [] OTHER -> << segment, i >>

\* the line number (from 0) of the definition of a label
RECURSIVE LabelLine(_, _, _)
LabelLine(code, label, k) ==
    IF k > Len(code) THEN -1
    ELSE IF code[k] = <<"l", "a", "b", "e", "l", " ">> \o label THEN k - 1
    ELSE LabelLine(code, label, k + 1)

VmTrue == Word(-1)
VmBool(b) == IF b THEN VmTrue ELSE 0

\* the result of a binary command on x (pushed first) and y
VmBinary(command, x, y) ==
    CASE command = <<"a", "d", "d">> -> Word(x + y)
      [] command = <<"s", "u", "b">> -> Word(x - y)
      [] command = <<"a", "n", "d">> -> BitAnd(x, y, 16)
      [] command = <<"o", "r">> -> BitOr(x, y, 16)
      [] command = <<"e", "q">> -> VmBool(x = y)
      [] command = <<"g", "t">> -> VmBool(Signed(x) > Signed(y))
      [] OTHER -> VmBool(Signed(x) < Signed(y))

VmBinaryCommands == { <<"a", "d", "d">>, <<"s", "u", "b">>, <<"a", "n", "d">>, <<"o", "r">>, <<"e", "q">>, <<"g", "t">>, <<"l", "t">> }

VmFault(m) == [m EXCEPT !.st = "fault"]
VmGoOn(m, stack) == [m EXCEPT !.pc = @ + 1, !.stack = stack]
VmPop(stack, n) == SubSeq(stack, 1, Len(stack) - n)
VmTop(stack) == stack[Len(stack)]

\* one command of the VM: the machine after it
VmCommand(m, mem, code) ==
    LET w == Split(code[m.pc + 1])
        s == m.stack
    IN  CASE w[1] = <<"p", "u", "s", "h">> ->
               VmGoOn(m, Append(s, IF w[2] = <<"c", "o", "n", "s", "t", "a", "n", "t">> THEN DecVal(w[3])
                                   ELSE Rd(mem, VmCell(mem, w[2], DecVal(w[3])))))
          [] w[1] = <<"p", "o", "p">> -> IF s = <<>> THEN VmFault(m) ELSE VmGoOn(m, VmPop(s, 1))
          [] w[1] \in VmBinaryCommands ->
               IF Len(s) < 2 THEN VmFault(m)
               ELSE VmGoOn(m, Append(VmPop(s, 2), VmBinary(w[1], s[Len(s) - 1], VmTop(s))))
          [] w[1] = <<"n", "e", "g">> ->
               IF s = <<>> THEN VmFault(m) ELSE VmGoOn(m, Append(VmPop(s, 1), Word(-VmTop(s))))
          [] w[1] = <<"n", "o", "t">> ->
               IF s = <<>> THEN VmFault(m)
               ELSE VmGoOn(m, Append(VmPop(s, 1), Word(-VmTop(s) - 1)))
          [] w[1] \in { <<"l", "a", "b", "e", "l">>, <<"f", "u", "n", "c", "t", "i", "o", "n">> } -> VmGoOn(m, s)
          [] w[1] = <<"g", "o", "t", "o">> ->
               IF LabelLine(code, w[2], 1) < 0 THEN VmFault(m)
               ELSE [m EXCEPT !.pc = LabelLine(code, w[2], 1)]
          [] w[1] = <<"i", "f", "-", "g", "o", "t", "o">> ->
               IF s = <<>> \/ LabelLine(code, w[2], 1) < 0 THEN VmFault(m)
               ELSE IF VmTop(s) # 0
               THEN [m EXCEPT !.pc = LabelLine(code, w[2], 1), !.stack = VmPop(s, 1)]
               ELSE VmGoOn(m, VmPop(s, 1))
          [] w[1] = <<"c", "a", "l", "l">> ->
               \* a function of another class: it takes its arguments and
               \* leaves its value, 0 for a void function
               IF Len(s) < DecVal(w[3]) THEN VmFault(m)
               ELSE VmGoOn(m, Append(VmPop(s, DecVal(w[3])), 0))
          [] w[1] = <<"r", "e", "t", "u", "r", "n">> -> [m EXCEPT !.st = "returned"]
          [] OTHER -> VmFault(m)

\* the memory after the command: pop stores the top of the stack
VmStore(m, mem, code) ==
    LET w == Split(code[m.pc + 1])
    IN  IF w[1] = <<"p", "o", "p">> /\ m.stack # <<>>
        THEN Wr(mem, VmCell(mem, w[2], DecVal(w[3])), VmTop(m.stack))
        ELSE mem

IfInit ==
    /\ GenStart(IfClasses)
    /\ \E c \in IfValues, d \in IfValues :
          /\ vm_in = [c |-> c, d |-> d]
          /\ ram = (<< <<"a", "r", "g", "u", "m", "e", "n", "t">>, 0 >> :> c) @@ (<< <<"a", "r", "g", "u", "m", "e", "n", "t">>, 1 >> :> d)
    /\ asm_out = <<>>
    /\ rom = <<>>
    /\ cpu = [VmReset EXCEPT !.st = "compile"]
    /\ snap = <<>>
    /\ AsmIdle /\ TokIdle /\ ParIdle

\* the compiled class is loaded and f is entered
VmEnter ==
    /\ gen_pc.st = "saved"
    /\ cpu.st = "compile"
    /\ cpu' = VmReset
    /\ UNCHANGED <<vm_in, asm_out, rom, ram, snap>>
    /\ UNCHANGED <<asm_vars, gen_vars, tok_vars, par_vars>>

\* one command of f; snap is the list of the lines executed
VmExecute ==
    /\ cpu.st = "vm"
    /\ cpu.pc < Len(vm_output)
    /\ Len(snap) < MaxVmSteps
    /\ cpu' = VmCommand(cpu, ram, vm_output)
    /\ ram' = VmStore(cpu, ram, vm_output)
    /\ snap' = Append(snap, cpu.pc)
    /\ UNCHANGED <<vm_in, asm_out, rom>>
    /\ UNCHANGED <<asm_vars, gen_vars, tok_vars, par_vars>>

IfNext == GenNext \/ VmEnter \/ VmExecute

SpecIf == IfInit /\ [][IfNext]_vars

\* ---- what was executed ----

TheIf == ast.subroutines[1].body.body[1]

\* the value of a term and of an expression of the conditions above
RECURSIVE TermValue(_)
TermValue(t) ==
    CASE t.t = "var" -> IF t.v = <<"c">> THEN vm_in.c ELSE vm_in.d
      [] t.t = "kw" -> VmBool(t.k = "true")
      [] OTHER -> Word(-TermValue(t.term) - 1)
CondValue(e) ==
    IF e.op_terms = <<>> THEN TermValue(e.term)
    ELSE IF e.op_terms[1].op = "&"
    THEN BitAnd(TermValue(e.term), TermValue(e.op_terms[1].term), 16)
    ELSE VmBool(TermValue(e.term) = TermValue(e.op_terms[1].term))

\* f has returned
FReturned == cpu.st = "returned"

\* the line (from 0) that holds text, the lines executed, the times a line
\* with that text was executed
LineOf(text) == (CHOOSE k \in 1..Len(vm_output) : vm_output[k] = text) - 1
Executed == { snap[k] : k \in 1..Len(snap) }
Times(text) == Cardinality({ k \in 1..Len(snap) : vm_output[snap[k] + 1] = text })

\* the labels of the first if statement of the class
ThenLabel == <<"i", "f", "_", "0">>
EndLabel == <<"f", "i", "_", "1">>

\* the lines of the body E and of the body T
ElseLines == (LineOf(<<"i", "f", "-", "g", "o", "t", "o", " ">> \o ThenLabel) + 1) .. (LineOf(<<"g", "o", "t", "o", " ">> \o EndLabel) - 1)
ThenLines == (LineOf(<<"l", "a", "b", "e", "l", " ">> \o ThenLabel) + 1) .. (LineOf(<<"l", "a", "b", "e", "l", " ">> \o EndLabel) - 1)

\* the position in snap of the only execution of the line text
StepOf(text) == CHOOSE k \in 1..Len(snap) : vm_output[snap[k] + 1] = text

\* C24: of if (cond) { T } else { E } exactly one body is executed, T when
\* cond is not zero and E (nothing when there is no else) when it is zero, and
\* then the end label fi_N is passed, once, and the statement after the if
\* runs.
C24_IfRunsOneBody ==
    FReturned =>
        /\ IF CondValue(TheIf.cond) # 0
           THEN /\ Executed \cap ElseLines = {}
                /\ Times(<<"c", "a", "l", "l", " ", "S", "y", "s", ".", "t", " ", "0">>) = 1
                /\ Times(<<"l", "a", "b", "e", "l", " ">> \o ThenLabel) = 1
           ELSE /\ Executed \cap ThenLines = {}
                /\ Times(<<"l", "a", "b", "e", "l", " ">> \o ThenLabel) = 0
                /\ Times(<<"c", "a", "l", "l", " ", "S", "y", "s", ".", "e", " ", "0">>) = IF TheIf.else_body.some THEN 1 ELSE 0
        /\ Times(<<"l", "a", "b", "e", "l", " ">> \o EndLabel) = 1
        /\ Times(<<"c", "a", "l", "l", " ", "S", "y", "s", ".", "a", "f", "t", "e", "r", " ", "0">>) = 1
        /\ StepOf(<<"l", "a", "b", "e", "l", " ">> \o EndLabel) < StepOf(<<"c", "a", "l", "l", " ", "S", "y", "s", ".", "a", "f", "t", "e", "r", " ", "0">>)
        /\ \A k \in 1..Len(snap) :
              snap[k] \in ThenLines \cup ElseLines => k < StepOf(<<"l", "a", "b", "e", "l", " ">> \o EndLabel)

\* f has returned after an if with an else whose condition was zero, and
\* after one whose condition was not zero
C24_Witness ==
    /\ FReturned
    /\ TheIf.else_body.some
    /\ CondValue(TheIf.cond) = 0
    /\ Len(TheIf.if_body) = 2
C24_WitnessThen ==
    /\ FReturned
    /\ CondValue(TheIf.cond) # 0
    /\ Len(TheIf.else_body.body) = 2

\* no run is cut short and none faults
IfRunsEnd == cpu.st # "fault" /\ (cpu.st = "vm" => Len(snap) < MaxVmSteps)

-----------------------------------------------------------------------------
(* names declared twice, and names declared in both scopes *)

\* the lists of names a declaration of the scenario holds
MaxNames == 2
NameLists ==
    UNION { [1..k -> { <<"x">>, <<"y">> }] : k \in 0..MaxNames }

LetXOne == LetStatement(<<"x">>, NoExpr, E1(IntegerConst(1)))

\* class Main { static int s; field int <fields>;
\*   method void a(int <params>) { var int <locals>; let x = 1; return; }
\*   method void b() { do Output.printString("Hi"); let x = 1; return; } }
ScopeClass(fields, params, locals) ==
    Class(<<"M", "a", "i", "n">>,
          << ClassVarDec("static", IntType, << <<"s">> >>),
             ClassVarDec("field", IntType, fields) >>,
          << SubroutineDec("method", <<"a">>, [i \in 1..Len(params) |-> Param(IntType, params[i])],
                 SubroutineBody(IF locals = <<>> THEN <<>> ELSE << VarDec(IntType, locals) >>,
                                << LetXOne, ReturnStatement(NoExpr) >>)),
             SubroutineDec("method", <<"b">>, <<>>,
                 SubroutineBody(<<>>,
                     << DoStatement(ExternalCall(<<"O", "u", "t", "p", "u", "t">>, <<"p", "r", "i", "n", "t", "S", "t", "r", "i", "n", "g">>,
                                                 << E1(StringConst(<<"H", "i">>)) >>)),
                        LetXOne, ReturnStatement(NoExpr) >>)) >>)

\* x is a field of every class
ScopeClasses ==
    { ScopeClass(<< <<"x">> >> \o fields, params, locals) :
         fields \in { f \in NameLists : Len(f) < MaxNames },
         params \in NameLists, locals \in NameLists }

ScopeInit == GenStart(ScopeClasses) /\ AsmIdle /\ VmtIdle /\ TokIdle /\ ParIdle

SpecScope == ScopeInit /\ [][GenNext]_vars

\* ---- the declarations, as the calls of define they lead to ----

Decl(name, type_, kind) == [name |-> name, type_ |-> type_, kind |-> kind]

\* impl VmWrite for Class: one define per name of the class variables
RECURSIVE ClassDecls(_)
ClassDecls(decs) ==
    IF decs = <<>> THEN <<>>
    ELSE [i \in 1..Len(Head(decs).names) |->
             Decl(Head(decs).names[i], Head(decs).type_, Head(decs).kind)]
         \o ClassDecls(Tail(decs))

RECURSIVE LocalDecls(_)
LocalDecls(decs) ==
    IF decs = <<>> THEN <<>>
    ELSE [i \in 1..Len(Head(decs).names) |->
             Decl(Head(decs).names[i], Head(decs).type_, "local")]
         \o LocalDecls(Tail(decs))

\* impl VmWrite for SubroutineDec and SubroutineBody: this for a method, the
\* parameters, the local variables
SubroutineDecls(sub) ==
    (IF sub.kind = "method" THEN << Decl(<<"t", "h", "i", "s">>, ClassType(ast.name), "argument") >> ELSE <<>>)
    \o [i \in 1..Len(sub.params) |-> Decl(sub.params[i].name, sub.params[i].var_type, "argument")]
    \o LocalDecls(sub.body.local_vars)

RECURSIVE DefineAll(_, _)
DefineAll(st, decls) ==
    IF decls = <<>> THEN st
    ELSE DefineAll(define(st, Head(decls).name, Head(decls).type_, Head(decls).kind), Tail(decls))

\* the entry the first define of the name made
FirstEntry(decls, name) ==
    LET k == CHOOSE i \in 1..Len(decls) :
                 decls[i].name = name /\ \A j \in 1..(i - 1) : decls[j].name # name
    IN  DefineAll(NewSymbolTable, SubSeq(decls, 1, k)).table[name]

\* every index below the count of a kind belongs to a name
NoOrphan(st) ==
    \A kind \in VarKinds : \A i \in 0..(var_count(st, kind) - 1) :
        \E n \in DOMAIN st.table : st.table[n].kind = kind /\ st.table[n].index = i

\* every declared name still has the entry of its first define
FirstKept(st, decls) ==
    \A i \in 1..Len(decls) :
        /\ decls[i].name \in DOMAIN st.table
        /\ st.table[decls[i].name] = FirstEntry(decls, decls[i].name)

\* C25: in a table a define of a name that is already there does not replace
\* the entry of the name and leaves no index of a kind without a name.
C25_NameBoundOnce ==
    /\ NoOrphan(context.class_scope)
    /\ NoOrphan(context.method_scope)
    /\ ClassDefined => FirstKept(context.class_scope, ClassDecls(ast.vars))
    /\ SubroutineEntered =>
          FirstKept(context.method_scope, SubroutineDecls(ast.subroutines[gen_log.sub]))

\* no name is declared twice in a scope
RECURSIVE NoRepeat(_)
NoRepeat(decls) ==
    \/ decls = <<>>
    \/ /\ \A i \in 2..Len(decls) : decls[i].name # Head(decls).name
       /\ NoRepeat(Tail(decls))
DeclaredOnce ==
    /\ NoRepeat(ClassDecls(ast.vars))
    /\ \A i \in 1..Len(ast.subroutines) : NoRepeat(SubroutineDecls(ast.subroutines[i]))

\* the same holds where no name is declared twice
C25_DistinctNamesKeepEntries == DeclaredOnce => C25_NameBoundOnce

\* ---- the two scopes ----

\* the names of a list of declarations
NamesOf(decls) == { decls[i].name : i \in 1..Len(decls) }

\* the number of declarations of the kind
CountOf(decls, kind) == Cardinality({ i \in 1..Len(decls) : decls[i].kind = kind })

\* the last line written for let x = 1 stores into the variable var
StoresInto(var) ==
    Last(vm_output') = Line3(pop_word, SegmentOf(var.kind), ToDec(var.index))

\* one step of the generator, as to the scopes
ScopeStep ==
    LET before == Gen(context, <<>>)
        after == Gen(context', <<>>)
    IN  \* the class table is written while the class variables are declared only
        /\ gen_pc.st # "class" => context'.class_scope = context.class_scope
        \* entering a subroutine leaves in the subroutine table what the
        \* subroutine declares, counted from 0
        /\ gen_pc.st = "subroutine" =>
              LET decls == SubroutineDecls(ast.subroutines[gen_pc.sub])
              IN  /\ DOMAIN context'.method_scope.table = NamesOf(decls)
                  /\ \A kind \in VarKinds :
                        var_count(context'.method_scope, kind) = CountOf(decls, kind)
        \* a name of both tables is that of the subroutine, a name of the
        \* class table alone is that of the class
        /\ \A n \in DOMAIN context'.class_scope.table \cup DOMAIN context'.method_scope.table :
              /\ ctx_find(after, n)
              /\ ctx_get(after, n) = IF n \in DOMAIN context'.method_scope.table
                                     THEN context'.method_scope.table[n]
                                     ELSE context'.class_scope.table[n]
        \* let x = 1 stores into the x of the subroutine where it declares one
        \* and into the field x where it does not
        /\ (gen_pc.st = "body" /\ gen_pc'.st # "panic"
              /\ ast.subroutines[gen_pc.sub].body.body[gen_pc.stmt] = LetXOne) =>
              LET decls == SubroutineDecls(ast.subroutines[gen_pc.sub])
              IN  IF <<"x">> \in NamesOf(decls)
                  THEN /\ StoresInto(context.method_scope.table[<<"x">>])
                       /\ context.method_scope.table[<<"x">>].kind \in {"argument", "local"}
                  ELSE /\ StoresInto(context.class_scope.table[<<"x">>])
                       /\ context.class_scope.table[<<"x">>].kind = "field"

\* C26: get gives the entry of the subroutine table for a name of both tables
\* and the entry of the class table for a name of that table alone;
\* start_subroutine leaves the subroutine table with nothing but what the new
\* subroutine declares, its counters starting at 0, and the class table as it
\* was, so that a name shadowed in one subroutine is the class's again in the
\* next; and nothing done while a subroutine is compiled changes the class
\* table.
C26_ScopesShadowAndReset == [][ScopeStep]_vars

\* x was shadowed in a and b has stored into the field x
C26_Witness ==
    /\ <<"x">> \in NamesOf(SubroutineDecls(ast.subroutines[1]))
    /\ gen_log.node = LetXOne
    /\ gen_log.sub = 2
    /\ Last(vm_output) = Line3(pop_word, <<"t", "h", "i", "s">>, <<"0">>)
    /\ <<"H", "i">> \in DOMAIN context.method_scope.table

-----------------------------------------------------------------------------
(* the line numbers of the tokens *)

\* JackTokenizer::new skips the line: it is inside a block comment that goes
\* on, or empty, or a line comment
Skipped(line, multi_comments) ==
    IF multi_comments THEN ~contains(line, <<"*", "/">>)
    ELSE line = <<>> \/ (Len(line) >= 2 /\ SubSeq(line, 1, 2) = <<"/", "/">>)

\* multi_comments after the line
StaysOpen(line, multi_comments) ==
    IF multi_comments THEN ~contains(line, <<"*", "/">>)
    ELSE /\ ~Skipped(line, FALSE)
         /\ ~contains(line, <<"/", "/">>)
         /\ contains(line, <<"/", "*">>)
         /\ find_str(line, <<"*", "/">>) < 0

\* for each of the codes kept, the number (from 1) of the line of the file it
\* was read from; n is the number of the first line of rest
RECURSIVE kept_lines(_, _, _, _)
kept_lines(rest, n, acc, multi_comments) ==
    IF rest = <<>> THEN acc
    ELSE LET line == trim(Head(rest))
         IN  kept_lines(Tail(rest), n + 1,
                        IF Skipped(line, multi_comments) THEN acc ELSE Append(acc, n),
                        StaysOpen(line, multi_comments))

\* the number (from 1) of the line of the file the token was read from
SourceLine(token) == kept_lines(lines(jack_src), 1, <<>>, FALSE)[token.line + 1]

\* the tokens have been produced
Tokenized == tok_pc \in {"save", "done"}

\* C27: every token carries the number of the line of the .jack file its
\* lexeme is on, counted from 0 or counted from 1, whatever precedes it.
C27_TokenLineIsSourceLine ==
    Tokenized =>
        \E base \in {0, 1} :
            \A j \in 1..Len(tokens) : tokens[j].line = SourceLine(tokens[j]) - 1 + base

\* one code is kept for each line that is not skipped
KeptPerLine ==
    tok_pc # "new" =>
        Len(tok_codes) = Len(kept_lines(lines(jack_src), 1, <<>>, FALSE))

\* where no line of the file is skipped the tokens carry the number of their
\* line, counted from 0
NothingSkipped ==
    kept_lines(lines(jack_src), 1, <<>>, FALSE) = [k \in 1..Len(lines(jack_src)) |-> k]
C27_LinesWithoutSkips ==
    (Tokenized /\ NothingSkipped) =>
        \A j \in 1..Len(tokens) : tokens[j].line = SourceLine(tokens[j]) - 1

-----------------------------------------------------------------------------
(* the lines of the translator, as the assembler reads them *)

LineSegments ==
    { <<"l", "o", "c", "a", "l">>, <<"a", "r", "g", "u", "m", "e", "n", "t">>, <<"t", "h", "i", "s">>, <<"t", "h", "a", "t">>, <<"t", "e", "m", "p">>, <<"p", "o", "i", "n", "t", "e", "r">>, <<"s", "t", "a", "t", "i", "c">> }

\* one command of each form: push and pop on every segment, the nine
\* arithmetic commands, the branching and the function commands
LineCommands ==
    { <<"p", "u", "s", "h", " ", "c", "o", "n", "s", "t", "a", "n", "t", " ", "7">> }
    \cup { Line3(word, seg, <<"1">>) : word \in { <<"p", "u", "s", "h">>, <<"p", "o", "p">> }, seg \in LineSegments }
    \cup { <<"a", "d", "d">>, <<"s", "u", "b">>, <<"n", "e", "g">>, <<"e", "q">>, <<"g", "t">>, <<"l", "t">>, <<"a", "n", "d">>, <<"o", "r">>, <<"n", "o", "t">> }
    \cup { <<"l", "a", "b", "e", "l", " ", "L">>, <<"g", "o", "t", "o", " ", "L">>, <<"i", "f", "-", "g", "o", "t", "o", " ", "L">>, <<"f", "u", "n", "c", "t", "i", "o", "n", " ", "F", "1", ".", "g", " ", "2">>, <<"c", "a", "l", "l", " ", "F", "1", ".", "g", " ", "1">>, <<"r", "e", "t", "u", "r", "n">> }

LineTexts == UNION { [1..n -> LineCommands] : n \in 1..MaxVmLen }

\* one file, translated alone or as a directory, with the bootstrap
LinesInit ==
    /\ \E text \in LineTexts, multi \in BOOLEAN :
          vm_in = [multi_files |-> multi, files |-> VmFiles(<< text >>)]
    /\ asm_out = <<>>
    /\ rom = <<>>
    /\ cpu = CpuReset
    /\ ram = <<>>
    /\ snap = NoCalls
    /\ AsmIdle /\ GenIdle /\ TokIdle /\ ParIdle

SpecLines == LinesInit /\ [][VmRun]_vars

\* Assembler::parse takes the line: Assembler::new drops it (empty or a
\* comment), or it is a label, or an A-instruction, or a C-instruction whose
\* three fields are keys of the tables
Accepted(line) ==
    LET kept == ReadCodes(<< line >>)
    IN  \/ kept = <<>>
        \/ starts_with(kept[1], "(")
        \/ starts_with(kept[1], "@")
        \/ CLookupOk(kept[1])

\* the lines of the output the assembler fails on
Refused == { k \in 1..Len(asm_out) : ~Accepted(asm_out[k]) }

\* C28: every line the translator writes is one the assembler accepts: a
\* label, an A-instruction that starts with @, or a C-instruction whose comp,
\* dest and jmp are keys of COMP_TABLE, DEST_TABLE and JMP_TABLE.
C28_OutputAssembles ==
    Translated => Refused = {}

\* the lines refused are the sums, the conjunctions and the disjunctions
\* written with D as the second operand, and the line R15
Commuted ==
    { <<"A", "=", "A", "+", "D">>, <<"A", "=", "M", "+", "D">>, <<"D", "=", "A", "+", "D">>, <<"D", "=", "M", "+", "D">>, <<"M", "=", "M", "+", "D">>, <<"M", "=", "M", "|", "D">>, <<"M", "=", "M", "&", "D">> }
C28_RefusedLines ==
    Translated => \A k \in Refused : asm_out[k] \in Commuted \cup { <<"R", "1", "5">> }

-----------------------------------------------------------------------------
(* the local variables a subroutine body uses *)

\* the node written last is a statement of a body
WroteStatement == gen_log.node.s \in {"let", "if", "while", "do", "return"}

\* the function line of the subroutine of the node written last
FunctionLine ==
    LET name == <<"f", "u", "n", "c", "t", "i", "o", "n", " ">> \o ast.name \o <<".">> \o ast.subroutines[gen_log.sub].name \o <<" ">>
    IN  CHOOSE k \in 1..Len(vm_output) :
            Len(vm_output[k]) > Len(name) /\ SubSeq(vm_output[k], 1, Len(name)) = name

\* the local slots the prologue sets up: those of the function line and one
\* for each push constant 0 of the initialisation
Reserved ==
    DecVal(Split(vm_output[FunctionLine])[3])
      + Len(DeclaredNames(ast.subroutines[gen_log.sub].body.local_vars))

\* the indices of the operands local i of the lines
LocalOperands(code) ==
    { DecVal(Split(code[k])[3]) :
         k \in { j \in 1..Len(code) : Len(Split(code[j])) = 3 /\ Split(code[j])[2] = <<"l", "o", "c", "a", "l">> } }

\* C30: every operand local i of a statement of a body has i below the number
\* of local slots the prologue of the subroutine sets up, and writing the
\* statement adds no local variable to the table of the subroutine.
C30_LocalsWithinPrologue ==
    WroteStatement =>
        /\ \A i \in LocalOperands(Emitted) : i < Reserved
        /\ var_count(context.method_scope, "local")
              = var_count(gen_log.before.method_scope, "local")

\* the same for the bodies without a string constant
RECURSIVE HasString(_)
HasString(e) ==
    /\ e # NoExpr
    /\ \/ e.term.t = "str"
       \/ \E k \in 1..Len(e.op_terms) : e.op_terms[k].term.t = "str"
ArgsHaveString(args) == \E k \in 1..Len(args) : HasString(args[k])
StatementHasString(st) ==
    CASE st.s = "let" -> HasString(st.right_expr)
      [] st.s = "do" -> ArgsHaveString(st.subroutine_call.args)
      [] OTHER -> FALSE
BodyHasString ==
    \E k \in 1..Len(ast.subroutines[gen_log.sub].body.body) :
        StatementHasString(ast.subroutines[gen_log.sub].body.body[k])
C30_LocalsWithoutStrings ==
    (WroteStatement /\ ~BodyHasString) => C30_LocalsWithinPrologue

=============================================================================
